---- MODULE Spec2Model ----
(***************************************************************************)
(* A model of the perf-event-data decoding engine: the ParseBuf sources    *)
(* (in-memory slice, chunked source), ParseBufCursor, the Parser           *)
(* primitives, record framing and dispatch, and Sample / SampleId decode.  *)
(***************************************************************************)
EXTENDS Integers, Sequences, FiniteSets, TLC

VARIABLES
    pc,       \* position of the driver: which operation ran last
    buf,      \* the source ParseBuf (Parser.data of the outer parser)
    cur,      \* the ParseBufCursor carved from the source
    out,      \* result of the last chunk() / parse call
    hist      \* bookkeeping of the run: inputs chosen and bytes counted

vars == <<pc, buf, cur, out, hist>>

-----------------------------------------------------------------------------
(* Bounds of the model                                                     *)

\* longest source, in bytes, in the cursor specification
MaxSrcLen == 4

-----------------------------------------------------------------------------
(* Bytes and sequences                                                     *)

Byte == 0..255

\* the largest alignment of an element type read by parse_slice (u64)
AlignMod == 8

RECURSIVE Reverse(_)
Reverse(s) == IF s = <<>> THEN <<>> ELSE Append(Reverse(Tail(s)), Head(s))

RECURSIVE SumLen(_)
SumLen(chunks) ==
    IF chunks = <<>> THEN 0 ELSE Len(Head(chunks).data) + SumLen(Tail(chunks))

RECURSIVE Concat(_)
Concat(chunks) ==
    IF chunks = <<>> THEN <<>> ELSE Head(chunks).data \o Concat(Tail(chunks))

Min(a, b) == IF a < b THEN a ELSE b

\* `let x = e; body`, written With([x \in {e} |-> body]): the body at the
\* value of e
With(f) == f[CHOOSE x \in DOMAIN f : TRUE]

\* the ? operator on the result r: go on with v when r is Ok, return r when
\* it is Err
Then(r, v) == IF r.ok THEN v ELSE r

Drop(s, n) == SubSeq(s, n + 1, Len(s))
Take(s, n) == SubSeq(s, 1, n)

-----------------------------------------------------------------------------
(* ParseBufChunk and the result of ParseBuf::chunk                         *)

\* Ok(ParseBufChunk::External(data)) / Ok(ParseBufChunk::Temporary(data))
\* addr is the address of the first byte, modulo AlignMod
ChunkOk(ext, data, addr) ==
    [ok |-> TRUE, ext |-> ext, data |-> data, addr |-> addr]
\* Err(ParseError::eof())
ChunkEof == [ok |-> FALSE, ext |-> FALSE, data |-> <<>>, addr |-> 0]

\* ParseBufChunk::truncate
Truncate(chunk, len) ==
    IF Len(chunk.data) <= len THEN chunk
    ELSE [chunk EXCEPT !.data = Take(chunk.data, len)]

\* ParseBufChunk::to_cow: Temporary data is copied, External data is borrowed
ToCow(chunk) ==
    [owned |-> ~chunk.ext, data |-> chunk.data, addr |-> chunk.addr]

-----------------------------------------------------------------------------
(* impl ParseBuf for &[u8]                                                 *)

\* a slice of bytes whose first byte lies at address addr (modulo AlignMod)
SliceBuf(data, addr) ==
    [kind |-> "slice", data |-> data, addr |-> addr, chunks |-> <<>>,
     offset |-> 0, len |-> 0, panicked |-> FALSE]

SliceChunkNoEofCheck(b) == ChunkOk(TRUE, b.data, b.addr)
SliceChunk(b) ==
    IF b.data = <<>> THEN ChunkEof ELSE ChunkOk(TRUE, b.data, b.addr)

\* split_at panics when count is past the end of the slice
SliceAdvance(b, count) ==
    IF count > Len(b.data) THEN [b EXCEPT !.panicked = TRUE]
    ELSE [b EXCEPT !.data = Drop(b.data, count),
                   !.addr = (b.addr + count) % AlignMod]

SliceRemainingHint(b) == Len(b.data)

-----------------------------------------------------------------------------
(* A chunked source: a list of chunks handed out one at a time, each       *)
(* External (tests::ChunkBuf) or Temporary (BufReader)                     *)

ChunkedBuf(chunks) ==
    [kind |-> "chunked", data |-> <<>>, addr |-> 0, chunks |-> chunks,
     offset |-> 0, len |-> 0, panicked |-> FALSE]

ChunkedChunk(b) ==
    IF b.chunks = <<>> THEN ChunkEof
    ELSE ChunkOk(Head(b.chunks).ext, Head(b.chunks).data, Head(b.chunks).addr)

RECURSIVE ChunkedAdvanceLoop(_, _)
ChunkedAdvanceLoop(chunks, count) ==
    IF chunks = <<>> THEN <<>>
    ELSE IF count < Len(Head(chunks).data)
         THEN <<[Head(chunks) EXCEPT
                    !.data = Drop(Head(chunks).data, count),
                    !.addr = (Head(chunks).addr + count) % AlignMod]>>
                  \o Tail(chunks)
         ELSE ChunkedAdvanceLoop(Tail(chunks), count - Len(Head(chunks).data))

ChunkedAdvance(b, count) ==
    [b EXCEPT !.chunks = ChunkedAdvanceLoop(b.chunks, count)]

-----------------------------------------------------------------------------
(* ParseBufCursor                                                          *)

CursorBuf(chunks, offset, len) ==
    [kind |-> "cursor", data |-> <<>>, addr |-> 0, chunks |-> chunks,
     offset |-> offset, len |-> len, panicked |-> FALSE]

Last(s) == s[Len(s)]
Pop(s) == SubSeq(s, 1, Len(s) - 1)

\* impl ParseBuf for ParseBufCursor: chunk
CursorChunk(c) ==
    IF c.chunks = <<>> THEN ChunkEof
    ELSE ChunkOk(~Last(c.chunks).owned,
                 Drop(Last(c.chunks).data, c.offset),
                 (Last(c.chunks).addr + c.offset) % AlignMod)

\* ParseBufCursor::advance_slow: the while loop
RECURSIVE AdvanceSlowLoopOffByOne(_, _)
AdvanceSlowLoopOffByOne(chunks, offset) ==
    IF chunks = <<>> THEN [chunks |-> chunks, offset |-> offset]
    ELSE IF offset <= Len(Last(chunks).data)
         THEN [chunks |-> chunks, offset |-> offset]
         ELSE AdvanceSlowLoopOffByOne(Pop(chunks), offset - Len(Last(chunks).data))

RECURSIVE AdvanceSlowLoop(_, _)
AdvanceSlowLoop(chunks, offset) ==
    IF chunks = <<>> THEN [chunks |-> chunks, offset |-> offset]
    ELSE IF offset < Len(Last(chunks).data)
         THEN [chunks |-> chunks, offset |-> offset]
         ELSE AdvanceSlowLoop(Pop(chunks), offset - Len(Last(chunks).data))

\* advance_slow without the assert on an empty list
AdvanceSlowNoAssert(c) ==
    With([r \in {AdvanceSlowLoop(c.chunks, c.offset)} |->
        [c EXCEPT !.chunks = r.chunks, !.offset = r.offset]])

\* ParseBufCursor::advance_slow: the loop, then the assert on an empty list
AdvanceSlow(c) ==
    With([r \in {AdvanceSlowLoop(c.chunks, c.offset)} |->
        [c EXCEPT !.chunks = r.chunks, !.offset = r.offset,
                  !.panicked = c.panicked \/ (r.chunks = <<>> /\ r.offset # 0)]])

\* The remaining-length counter after advance(count).  The code computes
\* self.len.checked_sub(count) and only expects it to be Some: the
\* difference is never stored back.
CursorLenAfterStored(len, count) == len - count
CursorLenAfter(len, count) == len

\* impl ParseBuf for ParseBufCursor: advance
CursorAdvance(c, count) ==
    IF count > c.len THEN [c EXCEPT !.panicked = TRUE]
    ELSE With([c1 \in {[c EXCEPT !.offset = c.offset + count,
                        !.len = CursorLenAfter(c.len, count)]} |->
             IF c1.chunks # <<>> /\ Len(Last(c1.chunks).data) > c1.offset
             THEN c1
             ELSE AdvanceSlow(c1)])

\* impl ParseBuf for ParseBufCursor: remaining_hint
CursorRemainingHint(c) == c.len

-----------------------------------------------------------------------------
(* The ParseBuf trait: dispatch on the implementation                      *)

Chunk(b) ==
    CASE b.kind = "slice"   -> SliceChunk(b)
      [] b.kind = "chunked" -> ChunkedChunk(b)
      [] b.kind = "cursor"  -> CursorChunk(b)

Advance(b, count) ==
    CASE b.kind = "slice"   -> SliceAdvance(b, count)
      [] b.kind = "chunked" -> ChunkedAdvance(b, count)
      [] b.kind = "cursor"  -> CursorAdvance(b, count)

\* -1 stands for None
RemainingHint(b) ==
    CASE b.kind = "slice"   -> SliceRemainingHint(b)
      [] b.kind = "chunked" -> -1
      [] b.kind = "cursor"  -> CursorRemainingHint(b)

\* bytes not yet consumed from a buffer (a measure, not part of the program)
Unread(b) ==
    CASE b.kind = "slice"   -> b.data
      [] b.kind = "chunked" -> Concat(b.chunks)
      [] b.kind = "cursor"  -> Drop(Concat(Reverse(b.chunks)), b.offset)

-----------------------------------------------------------------------------
(* ParseBufCursor::new                                                     *)

\* the chunks in the order the cursor keeps them
CursorOrderKeepPullOrder(chunks) == chunks
CursorOrder(chunks) == Reverse(chunks)

\* the loop of new left after its first pass
CursorNewLoopOnce(b, len, chunks) ==
    IF len = 0 \/ ~Chunk(b).ok THEN [ok |-> len = 0, buf |-> b, chunks |-> chunks]
    ELSE With([chunk \in {Truncate(Chunk(b), len)} |->
            [ok |-> TRUE, buf |-> Advance(b, Len(chunk.data)),
             chunks |-> Append(chunks, ToCow(chunk))]])

\* the while loop of new: pull, truncate, push, advance the source
RECURSIVE CursorNewLoop(_, _, _)
CursorNewLoop(b, len, chunks) ==
    IF len = 0 THEN [ok |-> TRUE, buf |-> b, chunks |-> chunks]
    ELSE IF ~Chunk(b).ok THEN [ok |-> FALSE, buf |-> b, chunks |-> chunks]
    ELSE With([next \in {LET chunk == Truncate(Chunk(b), len)
              IN  <<Advance(b, Len(chunk.data)),
                    len - Len(chunk.data),
                    IF Len(chunk.data) > 0
                    THEN Append(chunks, ToCow(chunk))
                    ELSE chunks>>} |-> CursorNewLoop(next[1], next[2], next[3])])

\* total_len as recorded in the new cursor
CursorNewLenOffByOne(len) == len + 1
CursorNewLen(len) == len

\* ParseBufCursor::new: [ok, buf (the advanced source), cursor]
CursorNew(b, len) ==
    With([r \in {CursorNewLoop(b, len, <<>>)} |->
        [ok |-> r.ok, buf |-> r.buf,
         cursor |-> CursorBuf(CursorOrder(r.chunks), 0, CursorNewLen(len))]])

\* ParseBufCursor::as_slice: the single borrowed segment, if that is all
\* the cursor holds
CursorIsSlice(c) == Len(c.chunks) = 1 /\ ~c.chunks[1].owned
CursorAsSlice(c) == SliceBuf(c.chunks[1].data, c.chunks[1].addr)

-----------------------------------------------------------------------------
(* Sources the driver starts from                                          *)

\* the bytes of a source of length n: every byte differs from the others
SrcBytes(n) == [i \in 1..n |-> 16 * i + 1]

\* every way of cutting s into non-empty chunks, each External or Temporary
RECURSIVE Splits(_)
Splits(s) ==
    IF s = <<>> THEN {<<>>}
    ELSE UNION { { <<[ext |-> e, data |-> Take(s, k), addr |-> 0]>> \o rest :
                      rest \in Splits(Drop(s, k)), e \in BOOLEAN } :
                 k \in 1..Len(s) }

CursorSources ==
    UNION { {SliceBuf(SrcBytes(n), 0)} \cup
            {ChunkedBuf(c) : c \in Splits(SrcBytes(n))} : n \in 0..MaxSrcLen }

NoCursor == CursorBuf(<<>>, 0, 0)
NoOut == [op |-> "none", ok |-> TRUE, err |-> "none", chunk |-> ChunkEof]
NoHist == [n |-> 0, srcBefore |-> <<>>, advanced |-> 0, segments |-> 0,
           read |-> <<>>, whole |-> TRUE]

-----------------------------------------------------------------------------
(* Specification SpecCursor: a source, a cursor carved from it, and any    *)
(* sequence of chunk() and advance() calls on either                       *)

InitCursor ==
    /\ pc = "source"
    /\ buf \in CursorSources
    /\ cur = NoCursor
    /\ out = NoOut
    /\ hist = NoHist

\* buf.chunk() on the source
SourceChunk ==
    /\ pc = "source"
    /\ out' = [op |-> "chunk", ok |-> Chunk(buf).ok,
               err |-> IF Chunk(buf).ok THEN "none" ELSE "Eof",
               chunk |-> Chunk(buf)]
    /\ UNCHANGED <<pc, buf, cur, hist>>

\* buf.advance(n) on the source, within the chunk it last returned
SourceAdvance ==
    /\ pc = "source"
    /\ Chunk(buf).ok
    /\ \E n \in 1..Len(Chunk(buf).data) :
          buf' = Advance(buf, n)
    /\ out' = NoOut
    /\ UNCHANGED <<pc, cur, hist>>

\* ParseBufCursor::new(&mut buf, n)
NewCursor ==
    /\ pc = "source"
    /\ \E n \in 0..(MaxSrcLen + 1) :
         \E r \in {CursorNew(buf, n)} :
             /\ buf' = r.buf
             /\ cur' = IF r.ok THEN r.cursor ELSE NoCursor
             /\ pc' = IF r.ok THEN "cursor" ELSE "failed"
             /\ out' = [op |-> "new", ok |-> r.ok,
                        err |-> IF r.ok THEN "none" ELSE "Eof",
                        chunk |-> ChunkEof]
             /\ hist' = [n |-> n, srcBefore |-> Unread(buf), advanced |-> 0,
                         segments |-> Len(r.cursor.chunks),
                         read |-> <<>>, whole |-> TRUE]

\* cursor.chunk()
CursorDoChunk ==
    /\ pc = "cursor"
    /\ out' = [op |-> "chunk", ok |-> Chunk(cur).ok,
               err |-> IF Chunk(cur).ok THEN "none" ELSE "Eof",
               chunk |-> Chunk(cur)]
    /\ UNCHANGED <<pc, buf, cur, hist>>

\* cursor.advance(n), for any n: past the end it panics.  The history keeps
\* the bytes of the chunk that the caller advanced over, and whether every
\* advance so far stayed within the chunk that chunk() returned
CursorDoAdvance ==
    /\ pc = "cursor"
    /\ \E n \in 0..(MaxSrcLen + 1) :
         \E c \in {Advance(cur, n)}, seen \in {Chunk(cur)} :
         \E within \in {n = 0 \/ (seen.ok /\ n <= Len(seen.data))} :
             /\ cur' = c
             /\ pc' = IF c.panicked THEN "panic" ELSE "cursor"
             /\ hist' = [hist EXCEPT
                            !.advanced = @ + n,
                            !.read = IF within /\ n > 0
                                     THEN @ \o SubSeq(seen.data, 1, n) ELSE @,
                            !.whole = @ /\ within]
    /\ out' = NoOut
    /\ UNCHANGED buf

NextCursor ==
    \/ SourceChunk
    \/ SourceAdvance
    \/ NewCursor
    \/ CursorDoChunk
    \/ CursorDoAdvance

SpecCursor == InitCursor /\ [][NextCursor]_vars

-----------------------------------------------------------------------------
(* Claims about the buffers and the cursor                                 *)

\* C1: for a cursor created with length N, after any sequence of valid
\* advance(n) calls remaining_hint() equals the number of bytes not yet
\* consumed, which is N minus the total advanced so far, and is 0 once
\* chunk() returns Eof.
C1_RemainingHintExact ==
    pc = "cursor" =>
        /\ CursorRemainingHint(cur) = Len(Unread(cur))
        /\ CursorRemainingHint(cur) = hist.n - hist.advanced
        /\ (~Chunk(cur).ok => CursorRemainingHint(cur) = 0)

\* C2: ParseBufCursor::new(buf, N) on a source holding at least N bytes
\* succeeds, advances the source by exactly N bytes and returns a cursor
\* that reports exactly N bytes remaining before any read; on a source
\* holding fewer than N bytes it fails with Eof.
C2_NewConsumesExactlyN ==
    pc \in {"cursor", "failed"} =>
        IF hist.n <= Len(hist.srcBefore)
        THEN /\ pc = "cursor"
             /\ Unread(buf) = Drop(hist.srcBefore, hist.n)
             /\ (out.op = "new" =>
                    /\ out.ok
                    /\ CursorRemainingHint(cur) = hist.n
                    /\ Len(Unread(cur)) = hist.n)
        ELSE /\ pc = "failed"
             /\ out.op = "new" /\ ~out.ok /\ out.err = "Eof"

\* a cursor of N >= 2 bytes was carved from a source that cuts those bytes
\* into several chunks, one of them Temporary, and holds more than N bytes
C2_Witness ==
    /\ pc = "cursor" /\ out.op = "new"
    /\ hist.n >= 2 /\ Len(hist.srcBefore) > hist.n
    /\ Len(cur.chunks) >= 2
    /\ \E i \in 1..Len(cur.chunks) : cur.chunks[i].owned

\* C22: in every state of a cursor, after earlier advances across segments
\* too, advance(n) panics when n is more than the bytes still unread and
\* returns normally, n bytes further, when it is not; it never returns
\* normally past the end and has no error to report.
C22_AdvancePanicsPastEnd ==
    [][pc = "cursor" =>
         LET n == hist'.advanced - hist.advanced
         IN  IF n > Len(Unread(cur))
             THEN pc' = "panic" /\ cur'.panicked
             ELSE /\ pc' = "cursor" /\ ~cur'.panicked
                  /\ Unread(cur') = Drop(Unread(cur), n)]_vars

\* an advance within the length the cursor was made with, but past the
\* bytes left after earlier advances, has panicked in advance_slow
C22_Witness ==
    /\ pc = "panic" /\ cur.panicked
    /\ cur.chunks = <<>> /\ cur.offset > 0
    /\ hist.n >= 2 /\ hist.advanced > hist.n

\* C25: for every source, every split of it into chunks and every N up to
\* its length, the bytes a caller gets from the cursor made by
\* ParseBufCursor::new(buf, N) by calling chunk() and advancing within the
\* chunk, in steps of any size, are a prefix of the first N bytes of the
\* source, and all of them once chunk() returns Eof
C25_CursorKeepsSourceOrder ==
    (pc = "cursor" /\ hist.whole) =>
        /\ Len(hist.read) = hist.advanced
        /\ hist.read = SubSeq(hist.srcBefore, 1, hist.advanced)
        /\ hist.advanced <= hist.n
        /\ ~Chunk(cur).ok <=> hist.advanced = hist.n

\* a cursor of three segments or more, shorter than the source, read to Eof
C25_Witness ==
    /\ pc = "cursor"
    /\ hist.whole
    /\ hist.segments >= 3
    /\ hist.n < Len(hist.srcBefore)
    /\ ~Chunk(cur).ok
    /\ hist.read = SubSeq(hist.srcBefore, 1, hist.n)

\* C3: in every reachable state of the slice buffer and of the cursor,
\* chunk() returns a chunk of at least one byte or an Eof error, never a
\* successful empty chunk.
C3_ChunkNeverEmpty ==
    /\ (pc = "source" /\ buf.kind = "slice") =>
          (Chunk(buf).ok => Len(Chunk(buf).data) >= 1)
    /\ pc = "cursor" => (Chunk(cur).ok => Len(Chunk(cur).data) >= 1)
    /\ (out.op = "chunk" /\ (pc = "cursor" \/ buf.kind = "slice")) =>
          IF out.ok THEN Len(out.chunk.data) >= 1 ELSE out.err = "Eof"

\* chunk() was called on a cursor right after an advance that ended exactly
\* on a segment boundary, with a further segment left
C3_Witness ==
    /\ pc = "cursor" /\ out.op = "chunk" /\ out.ok
    /\ hist.advanced >= 1 /\ cur.offset = 0
    /\ Len(cur.chunks) >= 1
    /\ hist.advanced + SumLen(cur.chunks) = hist.n

-----------------------------------------------------------------------------
(* Integers read from the wire                                             *)

\* An integer of w bytes is kept as its w base-256 digits, most significant
\* first.  Endian::convert_u16 / convert_u32 / convert_u64
ConvertIgnoringOrder(endian, bytes) == bytes
Convert(endian, bytes) == IF endian.big THEN bytes ELSE Reverse(bytes)

\* Endian::is_native
IsNative(endian) == endian.native

\* every length of the model is below this; a wire value at or above it
\* stands for any larger value
LenCap == 256 * 256

\* the value of a digit string as a number (`as usize`), capped at LenCap
RECURSIVE NumVal(_)
NumVal(d) ==
    IF d = <<>> THEN 0
    ELSE With([v \in {NumVal(Pop(d)) * 256 + Last(d)} |->
             IF v >= LenCap THEN LenCap ELSE v])

\* the digit string of w bytes of a number below LenCap
RECURSIVE Digits(_, _)
Digits(n, w) ==
    IF w = 0 THEN <<>> ELSE Append(Digits(n \div 256, w - 1), n % 256)

\* the bytes on the wire of a number below LenCap
Encode(endian, n, w) == IF endian.big THEN Digits(n, w) ELSE Reverse(Digits(n, w))

\* bit `bit` of the number n
HasBit(n, bit) == (n \div (2 ^ bit)) % 2 = 1

\* Option<T>: None is the empty sequence, Some(v) the sequence of v alone
None == <<>>
Some(v) == <<v>>
\* Option::or
OptOr(a, b) == IF a # None THEN a ELSE b

-----------------------------------------------------------------------------
(* ParseConfig                                                             *)

\* sample_type and read_format are sets of flag names, misc a u16,
\* regs_user and regs_intr the sets of register bits of the masks
Config(sty, rf, idAll, hwIndex, misc, regsUser, regsIntr, endian) ==
    [sample_type |-> sty, read_format |-> rf, sample_id_all |-> idAll,
     branch_hw_index |-> hwIndex, misc |-> misc,
     regs_user |-> regsUser, regs_intr |-> regsIntr, endian |-> endian]

\* with_misc that leaves the misc of the config as it was
WithMiscKeep(config, misc) == config
\* ParseConfig::with_misc
WithMisc(config, misc) == [config EXCEPT !.misc = misc]

Little == [big |-> FALSE, native |-> TRUE]
Big == [big |-> TRUE, native |-> FALSE]

-----------------------------------------------------------------------------
(* ConfigFlags: the flags of a ParseConfig packed into one u64.  A u64 of  *)
(* flags is the set of the positions of its bits that are set.             *)

\* the bit positions of a u64
WordBits == 64
Word == 0..(WordBits - 1)

\* the bits below position n: (1 << n) - 1
Below(n) == {b \in Word : b < n}
\* u64::MAX << n
From(n) == {b \in Word : b >= n}
\* x << k and x >> k on a u64
Shl(x, k) == {b + k : b \in x} \cap Word
Shr(x, k) == {b - k : b \in x} \cap Word

\* a u16 as its set of bits, and back
BitsOf(n) == {b \in 0..15 : HasBit(n, b)}
RECURSIVE ValueOf(_)
ValueOf(x) ==
    IF x = {} THEN 0
    ELSE With([b \in {CHOOSE b \in x : TRUE} |-> 2 ^ b + ValueOf(x \ {b})])

\* the bindings' PERF_FORMAT_MAX and PERF_SAMPLE_MAX: one bit above the
\* last flag of ReadFormat (LOST) and of SampleFlags (WEIGHT_STRUCT)
PerfFormatMaxBit == 5
PerfSampleMaxBit == 25

\* (MAX - 1).count_ones() of a power of two: the number of bits below it
MISC_WIDTH == 16
READ_FORMAT_WIDTH == PerfFormatMaxBit + 1
SAMPLE_TYPE_WIDTH == PerfSampleMaxBit

MISC_OFFSET == WordBits - MISC_WIDTH
BRANCH_HW_INDEX_OFFSET == MISC_OFFSET - 1
SAMPLE_ID_ALL_OFFSET == BRANCH_HW_INDEX_OFFSET - 1
READ_FORMAT_OFFSET == 0
SAMPLE_TYPE_OFFSET == READ_FORMAT_WIDTH

\* the masks of ConfigFlags
SAMPLE_ID_ALL == {46}
BRANCH_HW_INDEX == {47}
READ_FORMAT == Below(READ_FORMAT_WIDTH)
SAMPLE_TYPE ==
    From(READ_FORMAT_WIDTH) \cap Below(CHOOSE b \in SAMPLE_ID_ALL : TRUE)
\* the mask of misc one bit wider than MISC_WIDTH
MiscOneBitWider == From(MISC_OFFSET - 1)
MISC == From(MISC_OFFSET)

\* ConfigFlags::read_format / sample_type / sample_id_all / branch_hw_index
\* / misc
GetReadFormat(flags) == Shr(flags \cap READ_FORMAT, READ_FORMAT_OFFSET)
GetSampleType(flags) == Shr(flags \cap SAMPLE_TYPE, SAMPLE_TYPE_OFFSET)
GetSampleIdAll(flags) == SAMPLE_ID_ALL \subseteq flags
GetBranchHwIndex(flags) == BRANCH_HW_INDEX \subseteq flags
GetMisc(flags) == ValueOf(Shr(flags \cap MISC, MISC_OFFSET))

\* ConfigFlags::set_misc, and the same without the old bits cleared
SetMiscKeepOld(flags, misc) == flags \cup Shl(BitsOf(misc), MISC_OFFSET)
SetMisc(flags, misc) == (flags \ MISC) \cup Shl(BitsOf(misc), MISC_OFFSET)

\* ConfigFlags::set_sample_type
SetSampleType(flags, sample_type) ==
    (flags \ SAMPLE_TYPE)
        \cup (Shl(sample_type, SAMPLE_TYPE_OFFSET) \cap SAMPLE_TYPE)

\* ConfigFlags::set_read_format, and the same without the mark for the bits
\* that do not fit
SetReadFormatDropHigh(flags, read_format) ==
    (flags \ READ_FORMAT)
        \cup (Shl(read_format, READ_FORMAT_OFFSET) \cap READ_FORMAT)
SetReadFormat(flags, read_format) ==
    ((flags \ READ_FORMAT)
        \cup (Shl(read_format, READ_FORMAT_OFFSET) \cap READ_FORMAT))
        \cup (IF Shr(read_format, READ_FORMAT_WIDTH) # {}
              THEN {READ_FORMAT_OFFSET + READ_FORMAT_WIDTH - 1} ELSE {})

\* ConfigFlags::new
ConfigFlagsNew(read_format, sample_type, sample_id_all, branch_hw_index, misc) ==
    With([bits \in {(IF sample_id_all THEN {SAMPLE_ID_ALL_OFFSET} ELSE {})
                     \cup (IF branch_hw_index THEN {BRANCH_HW_INDEX_OFFSET} ELSE {})
                     \cup Shl(BitsOf(misc), MISC_OFFSET)} |->
        SetMisc(SetSampleType(SetReadFormat(bits, read_format), sample_type),
                misc)])

\* the flags of ReadFormat and of SampleFlags by bit position (position + 1
\* in the tuple); a bit that is no flag of the crate has its own name
ReadFormatFlags ==
    <<"TOTAL_TIME_ENABLED", "TOTAL_TIME_RUNNING", "ID", "GROUP", "LOST">>
SampleFlagList ==
    <<"IP", "TID", "TIME", "ADDR", "READ", "CALLCHAIN", "ID", "CPU", "PERIOD",
      "STREAM_ID", "RAW", "BRANCH_STACK", "REGS_USER", "STACK_USER", "WEIGHT",
      "DATA_SRC", "IDENTIFIER", "TRANSACTION", "REGS_INTR", "PHYS_ADDR",
      "AUX", "CGROUP", "DATA_PAGE_SIZE", "CODE_PAGE_SIZE", "WEIGHT_STRUCT">>
FlagNames(list, x) ==
    {IF b < Len(list) THEN list[b + 1] ELSE "BIT" \o ToString(b) : b \in x}

\* a ParseConfig as its accessors show it
ConfigOf(flags, regs_user, regs_intr, endian) ==
    Config(FlagNames(SampleFlagList, GetSampleType(flags)),
           FlagNames(ReadFormatFlags, GetReadFormat(flags)),
           GetSampleIdAll(flags), GetBranchHwIndex(flags), GetMisc(flags),
           regs_user, regs_intr, endian)

-----------------------------------------------------------------------------
(* Parser: the primitives                                                  *)

\* Parser::new
Parser(data, config) == [config |-> config, data |-> data]

\* ParseResult<T>, with the parser as the call left it
Ok(v, p) == [ok |-> TRUE, err |-> "none", val |-> v, p |-> p]
Err(e, p) == [ok |-> FALSE, err |-> e, val |-> None, p |-> p]

\* Parser::parse_to_slice: fill len bytes, walking the chunks
RECURSIVE ParseToSlice(_, _, _)
ParseToSlice(p, len, acc) ==
    IF len = 0 THEN Ok(acc, p)
    ELSE IF ~Chunk(p.data).ok THEN Err("Eof", p)
    ELSE With([next \in {LET chunk == Chunk(p.data)
                  n == Min(Len(chunk.data), len)
              IN  <<[p EXCEPT !.data = Advance(p.data, n)],
                    len - n,
                    acc \o Take(chunk.data, n)>>} |-> ParseToSlice(next[1], next[2], next[3])])

\* Parser::parse_array_slow
ParseArraySlow(p, n) == ParseToSlice(p, n, <<>>)

\* Parser::parse_array
ParseArray(p, n) ==
    LET chunk == Chunk(p.data)
    IN  IF ~chunk.ok THEN Err("Eof", p)
        ELSE IF Len(chunk.data) < n THEN ParseArraySlow(p, n)
        ELSE Ok(Take(chunk.data, n), [p EXCEPT !.data = Advance(p.data, n)])

\* Parser::parse_u8 / parse_u16 / parse_u32 / parse_u64, by width
ParseUint(p, w) ==
    With([r \in {ParseArray(p, w)} |-> Then(r, Ok(Convert(p.config.endian, r.val), r.p))])

ParseU16(p) == ParseUint(p, 2)
ParseU32(p) == ParseUint(p, 4)
ParseU64(p) == ParseUint(p, 8)

\* Parser::parse_if_with
ParseIfWith(p, parse, F(_)) ==
    IF parse THEN With([r \in {F(p)} |-> Then(r, Ok(Some(r.val), r.p))])
    ELSE Ok(None, p)

\* Ok(None) of parse_bytes_direct and of parse_slice_direct
NotDirect == [some |-> FALSE, data |-> <<>>, addr |-> 0]

\* parse_bytes_direct without the test of the chunk against len
ParseBytesDirectUnchecked(p, len) ==
    LET chunk == Chunk(p.data)
    IN  IF ~chunk.ok THEN Err("Eof", p)
        ELSE IF ~chunk.ext THEN Ok(NotDirect, p)
        ELSE IF Len(chunk.data) < len
        THEN Err("Eof", [p EXCEPT !.data = Advance(p.data, len)])
        ELSE Ok([some |-> TRUE, data |-> Take(chunk.data, len), addr |-> chunk.addr],
                [p EXCEPT !.data = Advance(p.data, len)])

\* Parser::parse_bytes_direct: val.some says whether the bytes were borrowed
ParseBytesDirect(p, len) ==
    LET chunk == Chunk(p.data)
    IN  IF ~chunk.ok THEN Err("Eof", p)
        ELSE IF ~chunk.ext \/ Len(chunk.data) < len THEN Ok(NotDirect, p)
        ELSE Ok([some |-> TRUE, data |-> Take(chunk.data, len),
                 addr |-> chunk.addr],
                [p EXCEPT !.data = Advance(p.data, len)])

\* Parser::parse_bytes_slow
RECURSIVE ParseBytesSlowLoop(_, _, _)
ParseBytesSlowLoop(p, len, bytes) ==
    IF len = 0 THEN Ok(bytes, p)
    ELSE IF ~Chunk(p.data).ok THEN Err("Eof", p)
    ELSE With([next \in {LET chunk == Truncate(Chunk(p.data), len)
              IN  <<[p EXCEPT !.data = Advance(p.data, Len(chunk.data))],
                    len - Len(chunk.data),
                    bytes \o chunk.data>>} |-> ParseBytesSlowLoop(next[1], next[2], next[3])])

ParseBytesSlow(p, len) == ParseBytesSlowLoop(p, len, <<>>)

\* Cow<[u8]>
Borrowed(data) == [owned |-> FALSE, data |-> data]
Owned(data) == [owned |-> TRUE, data |-> data]

\* Parser::parse_bytes
ParseBytes(p, len) ==
    With([d \in {ParseBytesDirect(p, len)} |-> Then(d,
        IF d.val.some THEN Ok(Borrowed(d.val.data), d.p)
        ELSE IF RemainingHint(p.data) # -1 /\ RemainingHint(p.data) >= len
        THEN With([r \in {ParseToSlice(p, len, <<>>)} |-> Then(r, Ok(Owned(r.val), r.p))])
        ELSE With([r \in {ParseBytesSlow(p, len)} |-> Then(r, Ok(Owned(r.val), r.p))]))])

\* Parser::parse_rest: the loop after the first chunk
RECURSIVE ParseRestLoop(_, _)
ParseRestLoop(p, bytes) ==
    IF ~Chunk(p.data).ok THEN Ok(bytes, p)
    ELSE With([next \in {LET chunk == Chunk(p.data)
              IN  <<[p EXCEPT !.data = Advance(p.data, Len(chunk.data))],
                    Owned(bytes.data \o chunk.data)>>} |-> ParseRestLoop(next[1], next[2])])

\* Parser::parse_rest with the first chunk() read by match instead of `?`,
\* so that an exhausted buffer yields the empty rest
ParseRestEmptyOk(p) ==
    LET chunk == Chunk(p.data)
    IN  IF ~chunk.ok THEN Ok(Borrowed(<<>>), p)
        ELSE With([q \in {[p EXCEPT !.data = Advance(p.data, Len(chunk.data))]} |-> ParseRestLoop(q, [owned |-> ~chunk.ext,
                                               data |-> chunk.data])])

\* Parser::parse_rest
ParseRest(p) ==
    LET chunk == Chunk(p.data)
    IN  IF ~chunk.ok THEN Err("Eof", p)
        ELSE With([q \in {[p EXCEPT !.data = Advance(p.data, Len(chunk.data))]} |-> ParseRestLoop(q, [owned |-> ~chunk.ext,
                                               data |-> chunk.data])])

\* the trim loop of parse_rest_trim_nul
RECURSIVE TrimNul(_)
TrimNul(bytes) ==
    IF bytes # <<>> /\ Last(bytes) = 0 THEN TrimNul(Pop(bytes)) ELSE bytes

\* Parser::parse_rest_trim_nul
ParseRestTrimNul(p) ==
    With([r \in {ParseRest(p)} |-> Then(r, Ok([r.val EXCEPT !.data = TrimNul(r.val.data)], r.p))])

\* a run of fixed-width integers read one after the other (p.parse()? for
\* each field of a struct): widths are the sizes of the fields
RECURSIVE ParseFields(_, _, _)
ParseFields(p, widths, acc) ==
    IF widths = <<>> THEN Ok(acc, p)
    ELSE With([r \in {ParseUint(p, Head(widths))} |-> Then(r,
             ParseFields(r.p, Tail(widths), Append(acc, r.val)))])

\* Parser::parse_repeated: len elements, each a run of fixed-width integers
RECURSIVE ParseRepeatedLoop(_, _, _, _)
ParseRepeatedLoop(p, len, widths, vec) ==
    IF len = 0 THEN Ok(vec, p)
    ELSE With([r \in {ParseFields(p, widths, <<>>)} |-> Then(r,
             ParseRepeatedLoop(r.p, len - 1, widths, Append(vec, r.val)))])

ParseRepeated(p, len, widths) == ParseRepeatedLoop(p, len, widths, <<>>)

\* usize::MAX, as far as the integers of the model reach
UsizeMax == 2147483647

\* DEFAULT_LEN of safe_capacity_bound
DEFAULT_LEN == 16384

\* Parser::safe_capacity_bound::<T>, size being size_of::<T>()
SafeCapacityBound(p, size) ==
    IF size = 0 THEN UsizeMax
    ELSE (IF RemainingHint(p.data) = -1 THEN DEFAULT_LEN
          ELSE RemainingHint(p.data)) \div size

\* the capacity of the Vec that parse_bytes_slow reserves
ParseBytesSlowCapacity(p, len) == Min(SafeCapacityBound(p, 1), len)

\* the capacity of the Vec that parse_bytes reserves, -1 when it returns
\* before reserving one (the bytes are borrowed, or chunk() fails)
ParseBytesCapacity(p, len) ==
    With([d \in {ParseBytesDirect(p, len)} |->
        IF ~d.ok \/ d.val.some THEN -1
        ELSE IF RemainingHint(p.data) # -1 /\ RemainingHint(p.data) >= len THEN len
        ELSE ParseBytesSlowCapacity(p, len)])

\* the capacity of the Vec that parse_repeated::<T> reserves
ParseRepeatedCapacity(p, len, size) == Min(len, SafeCapacityBound(p, size))

RECURSIVE Sum(_)
Sum(widths) == IF widths = <<>> THEN 0 ELSE Head(widths) + Sum(Tail(widths))

\* the elements a slice of bytes reinterprets to: native order, in place
RECURSIVE Reinterpret(_, _, _)
Reinterpret(endian, bytes, widths) ==
    IF bytes = <<>> THEN <<>>
    ELSE LET RECURSIVE One(_, _)
             One(bs, ws) ==
                 IF ws = <<>> THEN <<>>
                 ELSE <<Convert(endian, Take(bs, Head(ws)))>>
                          \o One(Drop(bs, Head(ws)), Tail(ws))
         IN  <<One(bytes, widths)>>
                 \o Reinterpret(endian, Drop(bytes, Sum(widths)), widths)

\* len.checked_mul(k) on the digits of a u64: the product, and whether it
\* left the 64 bits
RECURSIVE MulRev(_, _, _)
MulRev(r, k, carry) ==
    IF r = <<>> THEN [digits |-> <<>>, carry |-> carry]
    ELSE With([rest \in {MulRev(Tail(r), k, (Head(r) * k + carry) \div 256)} |->
             [digits |-> <<(Head(r) * k + carry) % 256>> \o rest.digits,
              carry |-> rest.carry]])

CheckedMul(d, k) ==
    With([m \in {MulRev(Reverse(d), k, 0)} |->
        [overflow |-> m.carry # 0, digits |-> Reverse(m.digits)]])

\* Parser::parse_slice_direct with the bytes taken only once the alignment
\* is known to fit
ParseSliceDirectCheckFirst(p, len, widths) ==
    With([t \in {<<CheckedMul(len, Sum(widths)), Chunk(p.data)>>} |->
        IF ~IsNative(p.config.endian) THEN Ok(NotDirect, p)
        ELSE IF t[1].overflow THEN Err("InvalidRecord", p)
        ELSE IF t[2].ok /\ NumVal(t[1].digits) # 0
                /\ t[2].addr % AlignMod # 0
        THEN Ok(NotDirect, p)
        ELSE With([d \in {ParseBytesDirect(p, NumVal(t[1].digits))} |-> Then(d,
            IF ~d.val.some THEN Ok(NotDirect, d.p)
            ELSE Ok([d.val EXCEPT
                        !.data = Reinterpret(p.config.endian, @, widths)], d.p))])])

\* Parser::parse_slice_direct for an element type of the given field widths,
\* len being the digits of the u64 count: val.some says whether the slice
\* was reinterpreted in place
ParseSliceDirect(p, len, widths) ==
    With([byte_len \in {CheckedMul(len, Sum(widths))} |->
        IF ~IsNative(p.config.endian) THEN Ok(NotDirect, p)
        ELSE IF byte_len.overflow THEN Err("InvalidRecord", p)
        ELSE With([d \in {ParseBytesDirect(p, NumVal(byte_len.digits))} |-> Then(d,
            IF ~d.val.some THEN Ok(NotDirect, d.p)
            ELSE IF d.val.data # <<>> /\ d.val.addr % AlignMod # 0
            THEN Ok(NotDirect, d.p)
            ELSE Ok([d.val EXCEPT
                        !.data = Reinterpret(p.config.endian, @, widths)], d.p))])])

\* Parser::parse_slice
ParseSlice(p, len, widths) ==
    With([d \in {ParseSliceDirect(p, len, widths)} |-> Then(d,
        IF d.val.some THEN Ok(Borrowed(d.val.data), d.p)
        ELSE With([r \in {ParseRepeated(d.p, NumVal(len), widths)} |-> Then(r, Ok(Owned(r.val), r.p))]))])

\* impl Parse for perf_event_header
ParseHeader(p) ==
    With([ty \in {ParseU32(p)} |-> Then(ty,
    With([misc \in {ParseU16(ty.p)} |-> Then(misc,
    With([size \in {ParseU16(misc.p)} |-> Then(size,
        Ok([type |-> ty.val, misc |-> misc.val, size |-> size.val], size.p))]))]))])

\* Parser::split_at with a short source taken for what it holds
SplitAtShort(p, offset) ==
    With([r \in {CursorNew(p.data, offset)} |->
        Ok(Parser(r.cursor, p.config), [p EXCEPT !.data = r.buf])])

\* Parser::split_at
SplitAt(p, offset) ==
    With([r \in {CursorNew(p.data, offset)} |->
        IF ~r.ok THEN Err("Eof", [p EXCEPT !.data = r.buf])
        ELSE Ok(Parser(r.cursor, p.config), [p EXCEPT !.data = r.buf])])

-----------------------------------------------------------------------------
(* Record framing: header, SampleId trailer, metadata                      *)

\* the PERF_RECORD_* type tags of the kernel ABI, in the order of their
\* values: the tag of a kind is its position in this list
RecordKinds ==
    <<"MMAP", "LOST", "COMM", "EXIT", "THROTTLE", "UNTHROTTLE", "FORK",
      "READ", "SAMPLE", "MMAP2", "AUX", "ITRACE_START", "LOST_SAMPLES",
      "SWITCH", "SWITCH_CPU_WIDE", "NAMESPACES", "KSYMBOL", "BPF_EVENT",
      "CGROUP", "TEXT_POKE", "AUX_OUTPUT_HW_ID">>

\* the kind a type tag names, "UNKNOWN" for a tag outside the list
KindOf(ty) == IF ty \in 1..Len(RecordKinds) THEN RecordKinds[ty] ELSE "UNKNOWN"

\* mem::size_of::<perf_event_header>()
HeaderLen == 8

\* the flags of sample_type that select a field of the SampleId trailer
SampleIdFlags == {"TID", "TIME", "ID", "STREAM_ID", "CPU", "IDENTIFIER"}

\* SampleId::estimate_len
EstimateLen(config) ==
    IF ~config.sample_id_all THEN 0
    ELSE Cardinality(config.sample_type \cap SampleIdFlags) * 8

\* SampleId::default
EmptySampleId ==
    [pid |-> None, tid |-> None, time |-> None, id |-> None,
     stream_id |-> None, cpu |-> None]

\* the cpu field read as one u32, without the reserved word after it
ParseCpuOneWord(p) == ParseU32(p)
\* the cpu field: two u32, the first is kept
ParseCpu(p) ==
    With([cpu \in {ParseU32(p)} |-> Then(cpu,
    With([res \in {ParseU32(cpu.p)} |-> Then(res, Ok(cpu.val, res.p))]))])

\* the merge of the two id positions of SampleId, with the later one first
SampleIdMergeLaterWins(id, identifier) == OptOr(identifier, id)
\* the merge of the two id positions of SampleId: id.or(identifier)
SampleIdMerge(id, identifier) == OptOr(id, identifier)

\* impl Parse for SampleId
ParseSampleId(p) ==
    LET sty == p.config.sample_type
    IN  IF ~p.config.sample_id_all THEN Ok(EmptySampleId, p)
        ELSE
        With([pid \in {ParseIfWith(p, "TID" \in sty, ParseU32)} |-> Then(pid,
        With([tid \in {ParseIfWith(pid.p, "TID" \in sty, ParseU32)} |-> Then(tid,
        With([time \in {ParseIfWith(tid.p, "TIME" \in sty, ParseU64)} |-> Then(time,
        With([id \in {ParseIfWith(time.p, "ID" \in sty, ParseU64)} |-> Then(id,
        With([sid \in {ParseIfWith(id.p, "STREAM_ID" \in sty, ParseU64)} |-> Then(sid,
        With([cpu \in {ParseIfWith(sid.p, "CPU" \in sty, ParseCpu)} |-> Then(cpu,
        With([ident \in {ParseIfWith(cpu.p, "IDENTIFIER" \in sty, ParseU64)} |-> Then(ident,
            Ok([pid |-> pid.val, tid |-> tid.val, time |-> time.val,
                id |-> SampleIdMerge(id.val, ident.val),
                stream_id |-> sid.val, cpu |-> cpu.val], ident.p))]))]))]))]))]))]))])

\* RecordMetadata::new
RecordMetadata(header, sample_id) ==
    [ty |-> NumVal(header.type), misc |-> NumVal(header.misc),
     sample_id |-> sample_id]

\* SAMPLE alone taken for a kind without trailer
NoTrailerKindsSampleOnly == {"SAMPLE"}
\* the kinds whose body has no SampleId trailer
NoTrailerKinds == {"MMAP", "SAMPLE"}

\* the body length left of the trailer with a trailer longer than the body
\* taken for no body at all
TrailerLenUnchecked(data_len, est) == IF data_len < est THEN 0 ELSE data_len - est
\* data_len.checked_sub(estimate_len): -1 stands for None
TrailerLenChecked(data_len, est) == IF data_len < est THEN -1 ELSE data_len - est

\* Parser::parse_metadata_with_header_impl; the value is the parser of the
\* record body and the metadata
ParseMetadataWithHeaderImpl(p, header) ==
    LET size == NumVal(header.size)
        data_len == size - HeaderLen
    IN  IF size < HeaderLen THEN Err("InvalidRecord", p)
        ELSE
        With([rp \in {SplitAt(p, data_len)} |-> Then(rp,
            IF KindOf(NumVal(header.type)) \in NoTrailerKinds
            THEN Ok([p |-> rp.val,
                     metadata |-> RecordMetadata(header, EmptySampleId)], rp.p)
            ELSE
            With([remaining_len \in {TrailerLenChecked(data_len, EstimateLen(rp.val.config))} |->
                IF remaining_len = -1 THEN Err("InvalidRecord", rp.p)
                ELSE
                With([body \in {SplitAt(rp.val, remaining_len)} |->
                    IF ~body.ok THEN Err(body.err, rp.p)
                    ELSE
                    With([sid \in {ParseSampleId(body.p)} |->
                        IF ~sid.ok THEN Err(sid.err, rp.p)
                        ELSE Ok([p |-> body.val,
                                 metadata |-> RecordMetadata(header, sid.val)],
                                rp.p)])])]))])

-----------------------------------------------------------------------------
(* Record decoders                                                         *)

\* the bits of the header's misc the decoders look at
\* (PERF_RECORD_MISC_SWITCH_OUT = 1 << 13, PERF_RECORD_MISC_MMAP_BUILD_ID = 1 << 14)
SwitchOutBit == 13
MmapBuildIdBit == 14

\* the records that are a run of fixed-width integers: the widths of their
\* fields in wire order
FixedLayout(kind) ==
    CASE kind = "LOST" -> <<8, 8>>
      [] kind \in {"EXIT", "FORK"} -> <<4, 4, 4, 4, 8>>
      [] kind \in {"THROTTLE", "UNTHROTTLE"} -> <<8, 8, 8>>
      [] kind = "AUX" -> <<8, 8, 8>>
      [] kind = "ITRACE_START" -> <<4, 4>>
      [] kind = "LOST_SAMPLES" -> <<8>>
      [] kind = "AUX_OUTPUT_HW_ID" -> <<8>>
      [] kind = "SWITCH_CPU_WIDE" -> <<4, 4>>
      [] kind = "COMM" -> <<4, 4>>
      [] kind = "MMAP" -> <<4, 4, 8, 8, 8>>
      [] kind = "CGROUP" -> <<8>>
      [] kind = "KSYMBOL" -> <<8, 4, 2, 2>>
      [] kind = "BPF_EVENT" -> <<2, 2, 4>>
      [] kind = "MMAP2" -> <<4, 4, 8, 8, 8>>
      [] kind = "NAMESPACES" -> <<4, 4, 8>>
      [] kind = "TEXT_POKE" -> <<8, 2, 2>>
      [] kind = "READ" -> <<4, 4>>
      [] OTHER -> <<>>

\* impl Parse for Lost, Exit (Fork), Throttle, Aux, ITraceStart,
\* LostSamples, AuxOutputHwId
ParseFixed(p, kind) ==
    With([f \in {ParseFields(p, FixedLayout(kind), <<>>)} |-> Then(f, Ok([fields |-> f.val], f.p))])

\* impl Parse for Comm, Mmap, CGroup, KSymbol: integers, then the rest of
\* the body without its NUL padding
ParseWithName(p, kind) ==
    With([f \in {ParseFields(p, FixedLayout(kind), <<>>)} |-> Then(f,
    With([name \in {ParseRestTrimNul(f.p)} |-> Then(name,
        Ok([fields |-> f.val, name |-> name.val], name.p))]))])

\* impl Parse for SwitchCpuWide
ParseSwitchCpuWide(p) ==
    With([f \in {ParseFields(p, FixedLayout("SWITCH_CPU_WIDE"), <<>>)} |-> Then(f,
        Ok([fields |-> f.val, out |-> HasBit(p.config.misc, SwitchOutBit)],
           f.p))])

\* impl Parse for BpfEvent
ParseBpfEvent(p) ==
    With([f \in {ParseFields(p, FixedLayout("BPF_EVENT"), <<>>)} |-> Then(f,
    With([tag \in {ParseArray(f.p, 8)} |-> Then(tag,
        Ok([fields |-> f.val, tag |-> tag.val], tag.p))]))])

\* impl Parse for MmapDetail
ParseMmapDetail(p) ==
    IF HasBit(p.config.misc, MmapBuildIdBit)
    THEN With([len \in {ParseUint(p, 1)} |-> Then(len,
         With([r1 \in {ParseUint(len.p, 1)} |-> Then(r1,
         With([r2 \in {ParseU16(r1.p)} |-> Then(r2,
         With([build_id \in {ParseArray(r2.p, 20)} |-> Then(build_id,
            IF NumVal(len.val) > Len(build_id.val)
            THEN Err("InvalidRecord", build_id.p)
            ELSE Ok([build_id |-> TRUE, id |-> build_id.val,
                     len |-> NumVal(len.val), fields |-> <<>>],
                    build_id.p))]))]))]))])
    ELSE With([f \in {ParseFields(p, <<4, 4, 8, 8>>, <<>>)} |-> Then(f,
            Ok([build_id |-> FALSE, id |-> <<>>, len |-> 0,
                fields |-> f.val], f.p))])

\* impl Parse for Mmap2
ParseMmap2(p) ==
    With([f \in {ParseFields(p, FixedLayout("MMAP2"), <<>>)} |-> Then(f,
    With([detail \in {ParseMmapDetail(f.p)} |-> Then(detail,
    With([prot \in {ParseFields(detail.p, <<4, 4>>, <<>>)} |-> Then(prot,
    With([name \in {ParseRestTrimNul(prot.p)} |-> Then(name,
        Ok([fields |-> f.val \o prot.val, detail |-> detail.val,
            name |-> name.val], name.p))]))]))]))])

\* impl Parse for Namespaces: entries of (dev, inode)
ParseNamespaces(p) ==
    With([f \in {ParseFields(p, FixedLayout("NAMESPACES"), <<>>)} |-> Then(f,
    With([ns \in {ParseSlice(f.p, f.val[3], <<8, 8>>)} |-> Then(ns,
        Ok([fields |-> Pop(f.val), namespaces |-> ns.val], ns.p))]))])

\* CowSliceExt::split_at
CowSplitAt(cow, len) ==
    IF ~cow.owned
    THEN <<Borrowed(Take(cow.data, len)), Borrowed(Drop(cow.data, len))>>
    ELSE IF len = 0 THEN <<Owned(cow.data), Borrowed(<<>>)>>
    ELSE IF len = Len(cow.data) THEN <<Borrowed(<<>>), Owned(cow.data)>>
    ELSE <<Owned(Take(cow.data, len)), Owned(Drop(cow.data, len))>>

\* CowSliceExt::truncate
CowTruncate(cow, len) ==
    IF Len(cow.data) < len THEN cow ELSE [cow EXCEPT !.data = Take(@, len)]

\* round_up_mod of text_poke.rs
RoundUpMod(v, k, m) ==
    v + (IF v % m <= k THEN k - (v % m) ELSE (k + m) - (v % m))

\* impl Parse for TextPoke
ParseTextPoke(p) ==
    With([f \in {ParseFields(p, FixedLayout("TEXT_POKE"), <<>>)} |-> Then(f,
        With([len \in {<<NumVal(f.val[2]), NumVal(f.val[3])>>} |->
        With([full_len \in {RoundUpMod(len[1] + len[2], 4, 8)} |->
            With([bytes \in {ParseBytes(f.p, full_len)} |-> Then(bytes,
                With([parts \in {CowSplitAt(bytes.val, len[1])} |->
                    Ok([addr |-> f.val[1], old_bytes |-> parts[1],
                        new_bytes |-> CowTruncate(parts[2], len[2])],
                       bytes.p)]))])])]))])

\* ReadFormat::all
ReadFormatAll == {"TOTAL_TIME_ENABLED", "TOTAL_TIME_RUNNING", "ID", "GROUP", "LOST"}

Zero64 == Digits(0, 8)

\* Option::unwrap_or(0)
UnwrapOrZero(opt) == IF opt = None THEN Zero64 ELSE opt[1]

\* impl Parse for ReadValue
ParseReadValue(p) ==
    LET rf == p.config.read_format
    IN  IF "GROUP" \in rf THEN Err("UnsupportedConfig", p)
        ELSE IF rf \ ReadFormatAll # {} THEN Err("UnsupportedConfig", p)
        ELSE
        With([value \in {ParseU64(p)} |-> Then(value,
        With([en \in {ParseIfWith(value.p, "TOTAL_TIME_ENABLED" \in rf, ParseU64)} |-> Then(en,
        With([run \in {ParseIfWith(en.p, "TOTAL_TIME_RUNNING" \in rf, ParseU64)} |-> Then(run,
        With([id \in {ParseIfWith(run.p, "ID" \in rf, ParseU64)} |-> Then(id,
        With([lost \in {ParseIfWith(id.p, "LOST" \in rf, ParseU64)} |-> Then(lost,
            Ok([group |-> FALSE, value |-> value.val,
                time_enabled |-> UnwrapOrZero(en.val),
                time_running |-> UnwrapOrZero(run.val),
                id |-> UnwrapOrZero(id.val), lost |-> UnwrapOrZero(lost.val),
                data |-> Borrowed(<<>>)],
               lost.p))]))]))]))]))])

\* ReadFormat::element_len
ElementLen(rf) == 1 + Cardinality(rf \cap {"ID", "LOST"})

\* impl Parse for ReadGroup
ParseReadGroup(p) ==
    LET rf == p.config.read_format
    IN  IF "GROUP" \notin rf THEN Err("UnsupportedConfig", p)
        ELSE IF rf \ ReadFormatAll # {} THEN Err("UnsupportedConfig", p)
        ELSE
        With([nr \in {ParseU64(p)} |-> Then(nr,
        With([en \in {ParseIfWith(nr.p, "TOTAL_TIME_ENABLED" \in rf, ParseU64)} |-> Then(en,
        With([run \in {ParseIfWith(en.p, "TOTAL_TIME_RUNNING" \in rf, ParseU64)} |-> Then(run,
            With([data_len \in {CheckedMul(nr.val, ElementLen(rf))} |->
                IF data_len.overflow THEN Err("InvalidRecord", run.p)
                ELSE With([data \in {ParseSlice(run.p, data_len.digits, <<8>>)} |-> Then(data,
                    Ok([group |-> TRUE, value |-> Zero64,
                        time_enabled |-> UnwrapOrZero(en.val),
                        time_running |-> UnwrapOrZero(run.val),
                        id |-> Zero64, lost |-> Zero64, data |-> data.val],
                       data.p))])]))]))]))])

\* impl Parse for Read
ParseRead(p) ==
    With([f \in {ParseFields(p, FixedLayout("READ"), <<>>)} |-> Then(f,
    With([values \in {ParseReadValue(f.p)} |-> Then(values,
        Ok([fields |-> f.val, values |-> values.val], values.p))]))])

\* impl Parse for ReadData: a group when read_format has GROUP, a single
\* value otherwise
ParseReadData(p) ==
    IF "GROUP" \in p.config.read_format THEN ParseReadGroup(p)
    ELSE ParseReadValue(p)

-----------------------------------------------------------------------------
(* Sample                                                                  *)

\* a Sample with no field set; identifier holds the value read at the
\* IDENTIFIER position until it is merged into id
EmptySample ==
    [identifier |-> None, ip |-> None, pid |-> None, tid |-> None,
     time |-> None, addr |-> None, id |-> None, stream_id |-> None,
     cpu |-> None, period |-> None, values |-> None, callchain |-> None,
     raw |-> None, lbr_hw_index |-> None, lbr |-> None, regs_user |-> None,
     stack_user |-> None, weight |-> None, data_src |-> None,
     transaction |-> None, regs_intr |-> None, phys_addr |-> None,
     aux |-> None, data_page_size |-> None, code_page_size |-> None]

\* let field = p.parse_if_with(cond, F)?  on the decode in progress s
Field(s, name, cond, F(_)) ==
    With([so_far \in {s} |-> Then(so_far,
        With([r \in {ParseIfWith(so_far.p, cond, F)} |-> Then(r,
            Ok([so_far.val EXCEPT ![name] = r.val], r.p))]))])

\* the callchain closure: a u64 count, then that many u64
ParseCallchain(p) ==
    With([nr \in {ParseU64(p)} |-> Then(nr, ParseSlice(nr.p, nr.val, <<8>>))])

\* the raw and aux closures: a u64 size, then that many bytes
ParseSized(p) ==
    With([size \in {ParseU64(p)} |-> Then(size, ParseBytes(size.p, NumVal(size.val)))])

\* the branch stack closure: count, hw_index if configured, the entries
\* (from, to, flags)
ParseBranchStack(p) ==
    With([nr \in {ParseU64(p)} |-> Then(nr,
    With([hw \in {ParseIfWith(nr.p, p.config.branch_hw_index, ParseU64)} |-> Then(hw,
    With([lbr \in {ParseSlice(hw.p, nr.val, <<8, 8, 8>>)} |-> Then(lbr,
        Ok([lbr |-> lbr.val, hw_index |-> hw.val], lbr.p))]))]))])

\* Registers::parse: the abi, then one u64 for every bit of the mask
ParseRegisters(p, mask) ==
    With([abi \in {ParseU64(p)} |-> Then(abi,
    With([regs \in {ParseSlice(abi.p, Digits(Cardinality(mask), 8), <<8>>)} |-> Then(regs,
        Ok([abi |-> abi.val, mask |-> mask, regs |-> regs.val], regs.p))]))])

\* the user stack closure without the test of dyn_size against the payload
ParseStackUserDynUnchecked(p) ==
    With([size \in {ParseU64(p)} |-> Then(size,
    With([data \in {ParseBytes(size.p, NumVal(size.val))} |-> Then(data,
    With([dyn_size \in {ParseU64(data.p)} |-> Then(dyn_size,
        Ok([data.val EXCEPT !.data = Take(@, Min(NumVal(dyn_size.val), Len(@)))],
           dyn_size.p))]))]))])

\* the user stack closure
ParseStackUser(p) ==
    With([size \in {ParseU64(p)} |-> Then(size,
    With([data \in {ParseBytes(size.p, NumVal(size.val))} |-> Then(data,
    With([dyn_size \in {ParseU64(data.p)} |-> Then(dyn_size,
        IF NumVal(dyn_size.val) > Len(data.val.data)
        THEN Err("InvalidRecord", dyn_size.p)
        ELSE Ok([data.val EXCEPT !.data = Take(@, NumVal(dyn_size.val))],
                dyn_size.p))]))]))])

\* the merge of the two id positions of Sample with the first one kept
SampleMergeEarlierWins(id, identifier) == OptOr(identifier, id)
\* the merge of the two id positions of Sample: parse_if(ID)?.or(id)
SampleMerge(id, identifier) == OptOr(id, identifier)

\* impl Parse for Sample
ParseSample(p) ==
    LET sty == p.config.sample_type
        Has(flag) == flag \in sty
        RegsUser(q) == ParseRegisters(q, p.config.regs_user)
        RegsIntr(q) == ParseRegisters(q, p.config.regs_intr)
        s1 == Field(Ok(EmptySample, p), "identifier", Has("IDENTIFIER"), ParseU64)
        s2 == Field(s1, "ip", Has("IP"), ParseU64)
        s3 == Field(s2, "pid", Has("TID"), ParseU32)
        s4 == Field(s3, "tid", Has("TID"), ParseU32)
        s5 == Field(s4, "time", Has("TIME"), ParseU64)
        s6 == Field(s5, "addr", Has("ADDR"), ParseU64)
        s7 == Field(s6, "id", Has("ID"), ParseU64)
        s8 == Field(s7, "stream_id", Has("STREAM_ID"), ParseU64)
        s9 == Field(s8, "cpu", Has("CPU"), ParseCpu)
        s10 == Field(s9, "period", Has("PERIOD"), ParseU64)
        s11 == Field(s10, "values", Has("READ"), ParseReadData)
        s12 == Field(s11, "callchain", Has("CALLCHAIN"), ParseCallchain)
        s13 == Field(s12, "raw", Has("RAW"), ParseSized)
        s14 == Field(s13, "lbr", Has("BRANCH_STACK"), ParseBranchStack)
        s15 == Field(s14, "regs_user", Has("REGS_USER"), RegsUser)
        s16 == Field(s15, "stack_user", Has("STACK_USER"), ParseStackUser)
        s17 == Field(s16, "weight", Has("WEIGHT"), ParseU64)
        s18 == Field(s17, "data_src", Has("DATA_SRC"), ParseU64)
        s19 == Field(s18, "transaction", Has("TRANSACTION"), ParseU64)
        s20 == Field(s19, "regs_intr", Has("REGS_INTR"), RegsIntr)
        s21 == Field(s20, "phys_addr", Has("PHYS_ADDR"), ParseU64)
        s22 == Field(s21, "aux", Has("AUX"), ParseSized)
        s23 == Field(s22, "data_page_size", Has("DATA_PAGE_SIZE"), ParseU64)
        s24 == Field(s23, "code_page_size", Has("CODE_PAGE_SIZE"), ParseU64)
    IN  With([s \in {s24} |-> Then(s,
            Ok([s.val EXCEPT
                    !.id = SampleMerge(s.val.id, s.val.identifier),
                    !.lbr = IF @ = None THEN None ELSE Some(@[1].lbr),
                    !.lbr_hw_index =
                        IF s.val.lbr = None THEN None
                        ELSE s.val.lbr[1].hw_index],
               s.p))])

-----------------------------------------------------------------------------
(* parse_record: dispatch to the visitor                                   *)

\* the kinds parse_record_impl has a match arm for
DispatchedKinds ==
    {"MMAP", "LOST", "COMM", "EXIT", "THROTTLE", "UNTHROTTLE", "FORK",
     "READ", "SAMPLE", "MMAP2", "AUX", "ITRACE_START", "LOST_SAMPLES",
     "SWITCH_CPU_WIDE", "NAMESPACES", "KSYMBOL", "BPF_EVENT", "CGROUP",
     "TEXT_POKE", "AUX_OUTPUT_HW_ID"}

\* the visitor method of a kind
VisitMethod(kind) ==
    CASE kind = "MMAP" -> "visit_mmap"
      [] kind = "LOST" -> "visit_lost"
      [] kind = "COMM" -> "visit_comm"
      [] kind = "EXIT" -> "visit_exit"
      [] kind = "THROTTLE" -> "visit_throttle"
      [] kind = "UNTHROTTLE" -> "visit_unthrottle"
      [] kind = "FORK" -> "visit_fork"
      [] kind = "READ" -> "visit_read"
      [] kind = "SAMPLE" -> "visit_sample"
      [] kind = "MMAP2" -> "visit_mmap2"
      [] kind = "AUX" -> "visit_aux"
      [] kind = "ITRACE_START" -> "visit_itrace_start"
      [] kind = "LOST_SAMPLES" -> "visit_lost_samples"
      [] kind = "SWITCH" -> "visit_switch"
      [] kind = "SWITCH_CPU_WIDE" -> "visit_switch_cpu_wide"
      [] kind = "NAMESPACES" -> "visit_namespaces"
      [] kind = "KSYMBOL" -> "visit_ksymbol"
      [] kind = "BPF_EVENT" -> "visit_bpf_event"
      [] kind = "CGROUP" -> "visit_cgroup"
      [] kind = "TEXT_POKE" -> "visit_text_poke"
      [] kind = "AUX_OUTPUT_HW_ID" -> "visit_aux_output_hw_id"
      [] OTHER -> "visit_unknown"

\* p.parse()? of the record type of a match arm
ParseKind(p, kind) ==
    CASE kind \in {"LOST", "EXIT", "FORK", "THROTTLE", "UNTHROTTLE", "AUX",
                   "ITRACE_START", "LOST_SAMPLES", "AUX_OUTPUT_HW_ID"}
            -> ParseFixed(p, kind)
      [] kind \in {"COMM", "MMAP", "CGROUP", "KSYMBOL"} -> ParseWithName(p, kind)
      [] kind = "SWITCH_CPU_WIDE" -> ParseSwitchCpuWide(p)
      [] kind = "BPF_EVENT" -> ParseBpfEvent(p)
      [] kind = "MMAP2" -> ParseMmap2(p)
      [] kind = "NAMESPACES" -> ParseNamespaces(p)
      [] kind = "TEXT_POKE" -> ParseTextPoke(p)
      [] kind = "READ" -> ParseRead(p)
      [] kind = "SAMPLE" -> ParseSample(p)

\* a call of a visitor method
Visit(method, record, metadata) ==
    [method |-> method, record |-> record, metadata |-> metadata]

\* the calls of visitor methods made by visitor.visit_x(p.parse()?, metadata):
\* the argument is evaluated first and its `?` returns before the call.
\* Called is the same with the call made whatever the decoder returned
CalledAnyway(r, visit) == <<visit>>
Called(r, visit) == IF r.ok THEN <<visit>> ELSE <<>>

\* Parser::parse_record_impl: the result carries the calls of visitor
\* methods that were made
ParseRecordImpl(self, metadata) ==
    With([t \in {<<Parser(self.data, WithMisc(self.config, metadata.misc)),
           KindOf(metadata.ty)>>} |->
        IF t[2] \in DispatchedKinds
        THEN With([r \in {ParseKind(t[1], t[2])} |->
                Then(r, Ok(Visit(VisitMethod(t[2]), r.val, metadata), r.p))
                    @@ [calls |-> Called(r, Visit(VisitMethod(t[2]), r.val, metadata))]])
        ELSE With([r \in {ParseRest(t[1])} |->
                Then(r, Ok(Visit("visit_unknown", r.val, metadata), r.p))
                    @@ [calls |-> Called(r, Visit("visit_unknown", r.val, metadata))]])])

\* Parser::parse_record_with_header: the result carries the parser as the
\* call leaves it and, as body, the parser of the record body as the
\* decoder left it (the parser itself when no body was split off)
ParseRecordWithHeader(p, header) ==
    With([m \in {ParseMetadataWithHeaderImpl(p, header)} |->
        IF ~m.ok THEN m @@ [body |-> m.p, calls |-> <<>>]
        ELSE
        With([rp \in {m.val.p} |->
        With([body \in {IF CursorIsSlice(rp.data)
             THEN Parser(CursorAsSlice(rp.data), rp.config)
             ELSE rp} |->
        With([r \in {ParseRecordImpl(body, m.val.metadata)} |->
            [r EXCEPT !.p = m.p] @@ [body |-> r.p]])])])])

\* Parser::parse_record
ParseRecord(p) ==
    With([header \in {ParseHeader(p)} |->
        IF ~header.ok THEN header @@ [body |-> header.p, calls |-> <<>>]
        ELSE ParseRecordWithHeader(header.p, header.val)])

\* Parser::parse_metadata
ParseMetadata(p) ==
    With([header \in {ParseHeader(p)} |-> Then(header,
        ParseMetadataWithHeaderImpl(header.p, header.val))])

-----------------------------------------------------------------------------
(* Records on the wire                                                     *)

\* n bytes, none of them zero, that differ from position to position and
\* from seed to seed
Pattern(n, seed) == [i \in 1..n |-> ((seed * 16 + i) % 251) + 1]

\* the fields of a Sample in the order the decoder reads them, each under
\* the flag that selects it; TID selects pid and tid
SampleFieldOrder ==
    <<"IDENTIFIER", "IP", "TID", "TIME", "ADDR", "ID", "STREAM_ID", "CPU",
      "PERIOD", "READ", "CALLCHAIN", "RAW", "BRANCH_STACK", "REGS_USER",
      "STACK_USER", "WEIGHT", "DATA_SRC", "TRANSACTION", "REGS_INTR",
      "PHYS_ADDR", "AUX", "DATA_PAGE_SIZE", "CODE_PAGE_SIZE">>

\* the fields of a SampleId trailer in wire order
SampleIdFieldOrder == <<"TID", "TIME", "ID", "STREAM_ID", "CPU", "IDENTIFIER">>

FlagIndex(flag) ==
    CHOOSE i \in 1..Len(SampleFieldOrder) : SampleFieldOrder[i] = flag

\* the value put on the wire at the position of a flag: w digits, most
\* significant first, different for every flag; part tells the two words
\* of TID and of CPU apart
WireValue(flag, part, w) ==
    [k \in 1..w |-> 8 * FlagIndex(flag) + 4 * part + k]

\* the bytes of a counter read as read_format lays them out
ReadWire(config) ==
    LET rf == config.read_format
        e == config.endian
        times == Cardinality(rf \cap {"TOTAL_TIME_ENABLED", "TOTAL_TIME_RUNNING"})
    IN  IF "GROUP" \in rf
        THEN Encode(e, 1, 8) \o Pattern(8 * times, 40)
                 \o Pattern(8 * ElementLen(rf), 41)
        ELSE Pattern(8 * (times + ElementLen(rf)), 42)

\* the bytes a selected field takes on the wire
FieldWire(flag, config) ==
    LET e == config.endian
        U(part, w) == IF e.big THEN WireValue(flag, part, w)
                      ELSE Reverse(WireValue(flag, part, w))
    IN  CASE flag \in {"TID", "CPU"} -> U(0, 4) \o U(1, 4)
          [] flag = "READ" -> ReadWire(config)
          [] flag = "CALLCHAIN" -> Encode(e, 1, 8) \o Pattern(8, 43)
          [] flag \in {"RAW", "AUX"} -> Encode(e, 4, 8) \o Pattern(4, 44)
          [] flag = "BRANCH_STACK" ->
                Encode(e, 1, 8)
                    \o (IF config.branch_hw_index THEN Pattern(8, 45) ELSE <<>>)
                    \o Pattern(24, 46)
          [] flag = "REGS_USER" ->
                Pattern(8, 47) \o Pattern(8 * Cardinality(config.regs_user), 48)
          [] flag = "REGS_INTR" ->
                Pattern(8, 49) \o Pattern(8 * Cardinality(config.regs_intr), 50)
          [] flag = "STACK_USER" ->
                Encode(e, 8, 8) \o Pattern(8, 51) \o Encode(e, 4, 8)
          [] OTHER -> U(0, 8)

\* the bytes of the fields of order that sample_type selects, in order
RECURSIVE FieldsWire(_, _)
FieldsWire(order, config) ==
    IF order = <<>> THEN <<>>
    ELSE (IF Head(order) \in config.sample_type
          THEN FieldWire(Head(order), config) ELSE <<>>)
             \o FieldsWire(Tail(order), config)

\* a Sample body and a SampleId trailer as the kernel lays them out
SampleWire(config) == FieldsWire(SampleFieldOrder, config)
TrailerWire(config) ==
    IF config.sample_id_all THEN FieldsWire(SampleIdFieldOrder, config)
    ELSE <<>>

\* a well-formed body of a record of a kind
BodyOf(kind, config, misc) ==
    LET e == config.endian
        ints == Pattern(Sum(FixedLayout(kind)), 1)
        name == <<97, 98, 0, 0>>
    IN  CASE kind \in {"COMM", "MMAP", "CGROUP", "KSYMBOL"} -> ints \o name
          [] kind = "BPF_EVENT" -> ints \o Pattern(8, 2)
          [] kind = "MMAP2" ->
                ints
                    \o (IF HasBit(misc, MmapBuildIdBit)
                        THEN <<20, 0, 0, 0>> \o Pattern(20, 3)
                        ELSE Pattern(24, 3))
                    \o Pattern(8, 4) \o name
          [] kind = "NAMESPACES" ->
                Pattern(8, 5) \o Encode(e, 1, 8) \o Pattern(16, 6)
          [] kind = "TEXT_POKE" ->
                Pattern(8, 7) \o Encode(e, 1, 2) \o Encode(e, 2, 2)
                    \o Pattern(RoundUpMod(3, 4, 8), 8)
          [] kind = "READ" -> ints \o ReadWire(config)
          [] kind = "SAMPLE" -> SampleWire(config)
          [] kind = "SWITCH" -> <<>>
          [] OTHER -> ints

\* the bytes of a perf_event_header
HeaderWire(e, ty, misc, size) ==
    Encode(e, ty, 4) \o Encode(e, misc, 2) \o Encode(e, size, 2)

\* a source of the given bytes: a slice at an address, or chunks of n bytes
\* that are all External or all Temporary
ChunksOf(bytes, n, ext) ==
    [i \in 1..((Len(bytes) + n - 1) \div n) |->
        [ext |-> ext, addr |-> 0,
         data |-> SubSeq(bytes, n * (i - 1) + 1, Min(n * i, Len(bytes)))]]

SourceOf(bytes, shape) ==
    IF shape.kind = "slice" THEN SliceBuf(bytes, shape.addr)
    ELSE ChunkedBuf(ChunksOf(bytes, shape.n, shape.ext))

-----------------------------------------------------------------------------
(* Driver: one record in a source, read by parse_record, parse_metadata    *)
(* or parse::<P>                                                           *)

\* the longest body of a record of unknown type
MaxUnknownLen == 3
\* how many bytes a header may declare less than the record has
MaxShrink == 1
\* how many bytes of the record may be missing from the source
MaxCut == 2

\* the configs of the driver, each with the misc of the header
RecordConfigs ==
    {[config |-> Config({}, {}, FALSE, FALSE, 0, {}, {}, Little), misc |-> 0],
     [config |-> Config({"TID"}, {}, TRUE, FALSE, 0, {}, {}, Little),
      misc |-> 2 ^ SwitchOutBit + 2 ^ MmapBuildIdBit],
     [config |-> Config({"TID", "ID", "CPU"}, {"ID"}, TRUE, FALSE, 0, {}, {}, Little),
      misc |-> 0],
     [config |-> Config({"TIME"}, {}, TRUE, FALSE, 0, {}, {}, Big), misc |-> 0],
     [config |-> Config({"IP"}, {"TOTAL_TIME_ENABLED"}, FALSE, FALSE, 0, {}, {}, Big),
      misc |-> 2 ^ SwitchOutBit + 2 ^ MmapBuildIdBit]}

SourceShapes ==
    {[kind |-> "slice", addr |-> 0, n |-> 0, ext |-> TRUE],
     [kind |-> "slice", addr |-> 4, n |-> 0, ext |-> TRUE],
     [kind |-> "chunked", addr |-> 0, n |-> 3, ext |-> TRUE],
     [kind |-> "chunked", addr |-> 0, n |-> 5, ext |-> FALSE]}

\* the records the driver frames: every known kind with a well-formed body,
\* and an unknown type tag with every body up to MaxUnknownLen
UnknownTag == Len(RecordKinds) + 1

Shapes(config, misc) ==
    {[kind |-> RecordKinds[t], tag |-> t,
      body |-> BodyOf(RecordKinds[t], config, misc)] :
        t \in 1..Len(RecordKinds)}
    \cup {[kind |-> "UNKNOWN", tag |-> UnknownTag, body |-> Pattern(n, 9)] :
            n \in 0..MaxUnknownLen}

\* the trailer the record of a kind carries under a config
TrailerOf(kind, config) ==
    IF kind \in NoTrailerKinds THEN <<>> ELSE TrailerWire(config)

\* the sizes a header declares for a record of exact bytes: the exact one,
\* some that are too small for the frame or for the trailer, one too small
\* for the body
SizeChoices(exact, trailerLen) ==
    {exact - d : d \in 0..MaxShrink}
        \cup {0, HeaderLen - 1, HeaderLen}
        \cup {HeaderLen + trailerLen - d : d \in 1..MaxShrink}

\* the number of bytes of the framed record (and of the two bytes that
\* follow it) that the source holds
KeepChoices(exact) ==
    {exact + 2, exact} \cup {exact - c : c \in 1..MaxCut}
        \cup {HeaderLen - 2, HeaderLen + 1}

\* the declared size and the bytes held: one of them off, or the size too
\* small for the trailer and the source cut right after the header
Framings(exact, trailerLen) ==
    {[size |-> exact, keep |-> k] : k \in KeepChoices(exact)}
        \cup {[size |-> sz, keep |-> exact + 2] :
                sz \in SizeChoices(exact, trailerLen)}
        \cup {[size |-> HeaderLen + trailerLen - d, keep |-> HeaderLen + 1] :
                d \in 1..MaxShrink}

\* the types parse::<P>() is called with on a record of a kind
ParseTypes(kind) ==
    {"header", "u64", "SampleId"} \cup ({kind} \cap DispatchedKinds)

\* P::parse(self)
ParseType(p, type) ==
    CASE type = "header" -> ParseHeader(p)
      [] type = "u64" -> ParseU64(p)
      [] type = "SampleId" -> ParseSampleId(p)
      [] OTHER -> ParseKind(p, type)

InitRecord ==
    \E rc \in RecordConfigs, shape \in SourceShapes :
    \E rec \in Shapes(rc.config, rc.misc) :
        \E trailer \in {TrailerOf(rec.kind, rc.config)} :
        \E exact \in {HeaderLen + Len(rec.body) + Len(trailer)} :
        \E fr \in Framings(exact, Len(trailer)) :
        \E full \in {HeaderWire(rc.config.endian, rec.tag, rc.misc, fr.size)
                         \o rec.body \o trailer \o <<254, 253>>} :
        \E parser \in {Parser(SourceOf(Take(full, fr.keep), shape),
                               rc.config)} :
                    /\ pc = "record"
                    /\ buf = parser
                    /\ cur = NoCursor
                    /\ out = [op |-> "none"]
                    /\ hist = [kind |-> rec.kind, tag |-> rec.tag,
                               misc |-> rc.misc, size |-> fr.size,
                               body |-> rec.body, trailer |-> trailer,
                               avail |-> fr.keep - HeaderLen,
                               wellformed |-> fr.size = exact /\ fr.keep >= exact,
                               before |-> parser]

\* whether a buffer handed back by a call saw an advance past its end
Panicked(p) == p.data.panicked

\* parser.parse_record(visitor)
DoParseRecord ==
    /\ pc = "record"
    /\ \E res \in {ParseRecord(buf)} :
           /\ out' = [op |-> "parse_record", res |-> res,
                      panicked |-> Panicked(res.p) \/ Panicked(res.body)]
           /\ buf' = res.p
    /\ pc' = "done"
    /\ UNCHANGED <<cur, hist>>

\* parser.parse_metadata()
DoParseMetadata ==
    /\ pc = "record"
    /\ \E res \in {ParseMetadata(buf)} :
           /\ out' = [op |-> "parse_metadata", res |-> res,
                      panicked |-> Panicked(res.p)
                                     \/ (res.ok /\ Panicked(res.val.p))]
           /\ buf' = res.p
    /\ pc' = "done"
    /\ UNCHANGED <<cur, hist>>

\* parser.parse::<P>()
DoParse ==
    /\ pc = "record"
    /\ \E type \in ParseTypes(hist.kind) :
        \E res \in {ParseType(buf, type)} :
            /\ out' = [op |-> "parse", type |-> type, res |-> res,
                       panicked |-> Panicked(res.p)]
            /\ buf' = res.p
    /\ pc' = "done"
    /\ UNCHANGED <<cur, hist>>

NextRecord == DoParseRecord \/ DoParseMetadata \/ DoParse

SpecRecord == InitRecord /\ [][NextRecord]_vars

-----------------------------------------------------------------------------
(* Properties of parse, parse_metadata and parse_record                    *)

\* the number of bytes a parser has still to read
Position(p) == Len(Unread(p.data))

\* the header was read: the source held its 8 bytes
HeaderRead == hist.avail >= 0

FramedCall == pc = "done" /\ out.op \in {"parse_record", "parse_metadata"}

\* C4: when parse::<P>() returns an error the parser is as it was before
\* the call: the same number of bytes consumed and the same Config.
C4_FailedParseLeavesParser ==
    (pc = "done" /\ out.op = "parse" /\ ~out.res.ok)
        => /\ Position(out.res.p) = Position(hist.before)
           /\ out.res.p.config = hist.before.config

\* C5 as stated: parse_metadata and parse_record fail with InvalidRecord,
\* without a panic, whenever the declared size is below the 8-byte frame
\* and whenever a record with a trailer declares a body shorter than the
\* trailer.
C5_AsStated ==
    (FramedCall /\ HeaderRead)
        => /\ ~out.panicked
           /\ hist.size < HeaderLen
                => (~out.res.ok /\ out.res.err = "InvalidRecord")
           /\ (/\ hist.size >= HeaderLen
               /\ hist.kind \notin NoTrailerKinds
               /\ hist.size - HeaderLen < EstimateLen(hist.before.config))
                => (~out.res.ok /\ out.res.err = "InvalidRecord")

\* C5: parse_metadata and parse_record fail with InvalidRecord, without a
\* panic, whenever the declared size is below the 8-byte frame, and
\* whenever a record with a trailer declares a body shorter than the
\* trailer and the source holds the declared body (size - 8 bytes after
\* the header).
C5_InvalidRecord ==
    (FramedCall /\ HeaderRead)
        => /\ ~out.panicked
           /\ hist.size < HeaderLen
                => (~out.res.ok /\ out.res.err = "InvalidRecord")
           /\ (/\ hist.size >= HeaderLen
               /\ hist.kind \notin NoTrailerKinds
               /\ hist.size - HeaderLen < EstimateLen(hist.before.config)
               /\ hist.avail >= hist.size - HeaderLen)
                => (~out.res.ok /\ out.res.err = "InvalidRecord")

C5_Witness ==
    /\ FramedCall
    /\ hist.size >= HeaderLen
    /\ hist.kind \notin NoTrailerKinds
    /\ hist.size - HeaderLen < EstimateLen(hist.before.config)
    /\ hist.avail >= hist.size - HeaderLen
    /\ ~out.res.ok /\ out.res.err = "InvalidRecord"

\* C6: when the header declares a size of 8 or more and the source holds
\* fewer than size - 8 bytes after the header, parse_record fails with Eof
\* and calls no visitor method.
C6_ShortSourceIsEof ==
    (/\ pc = "done" /\ out.op = "parse_record"
     /\ HeaderRead
     /\ hist.size >= HeaderLen
     /\ hist.avail < hist.size - HeaderLen)
        => /\ ~out.res.ok
           /\ out.res.err = "Eof"
           /\ out.res.val = None

C6_Witness ==
    /\ pc = "done" /\ out.op = "parse_record"
    /\ hist.size > HeaderLen
    /\ hist.avail > 0
    /\ hist.avail < hist.size - HeaderLen
    /\ out.res.err = "Eof"

\* C7: parse_record on a well-formed record of a kind that has a visitor
\* method of its own calls that method, not visit_unknown.
C7_KnownKindDispatch ==
    (/\ pc = "done" /\ out.op = "parse_record"
     /\ hist.wellformed
     /\ hist.kind # "UNKNOWN")
        => /\ out.res.ok
           /\ out.res.val.method = VisitMethod(hist.kind)

\* C8: parse_record on a well-formed record of an unknown type succeeds and
\* calls visit_unknown with exactly the bytes of the body, whatever the
\* length of the body, zero included.
C8_UnknownGetsBody ==
    (/\ pc = "done" /\ out.op = "parse_record"
     /\ hist.wellformed
     /\ hist.kind = "UNKNOWN")
        => /\ out.res.ok
           /\ out.res.val.method = "visit_unknown"
           /\ out.res.val.record.data = hist.body

-----------------------------------------------------------------------------
(* Driver: one Sample body or one SampleId trailer, read by parse::<P>     *)

\* the most flags set in sample_type
MaxFlags == 2
\* how many bytes may follow the body in the source
ExtraLen == 8

\* the sample_type values of the driver: every set of up to MaxFlags of the
\* flags that one of the two decoders reads
SampleTypes ==
    {{f[i] : i \in 1..MaxFlags} \ {"NONE"} :
        f \in [1..MaxFlags ->
                 {SampleFieldOrder[i] : i \in DOMAIN SampleFieldOrder}
                     \cup {"NONE"}]}

\* a config with sample_type sty: plain read values, sample_id_all set, the
\* hardware index in the branch stack, one user and two interrupt registers
SampleConfig(sty, endian) ==
    Config(sty, {}, TRUE, TRUE, 0, {0}, {0, 1}, endian)

InitSample ==
    \E sty \in SampleTypes, endian \in {Little, Big}, shape \in SourceShapes :
    \E type \in {"Sample", "SampleId"}, extra \in {0, ExtraLen} :
        \E config \in {SampleConfig(sty, endian)} :
        \E body \in {IF type = "Sample" THEN SampleWire(config)
                     ELSE TrailerWire(config)} :
        \E wire \in {body \o Pattern(extra, 60)} :
        \E parser \in {Parser(SourceOf(wire, shape), config)} :
            /\ pc = "sample"
            /\ buf = parser
            /\ cur = NoCursor
            /\ out = [op |-> "none"]
            /\ hist = [type |-> type, config |-> config, shape |-> shape,
                       body |-> body, wire |-> wire, before |-> parser]

\* parser.parse::<Sample>()
DoParseSample ==
    /\ pc = "sample"
    /\ hist.type = "Sample"
    /\ \E res \in {ParseSample(buf)} :
           /\ out' = [op |-> "Sample", res |-> res,
                      panicked |-> Panicked(res.p)]
           /\ buf' = res.p
    /\ pc' = "done"
    /\ UNCHANGED <<cur, hist>>

\* parser.parse::<SampleId>()
DoParseSampleId ==
    /\ pc = "sample"
    /\ hist.type = "SampleId"
    /\ \E res \in {ParseSampleId(buf)} :
           /\ out' = [op |-> "SampleId", res |-> res,
                      panicked |-> Panicked(res.p)]
           /\ buf' = res.p
    /\ pc' = "done"
    /\ UNCHANGED <<cur, hist>>

NextSample == DoParseSample \/ DoParseSampleId

SpecSample == InitSample /\ [][NextSample]_vars

-----------------------------------------------------------------------------
(* Properties of the Sample and SampleId decoders                          *)

\* the wire order of the decoder that ran
OrderOf(op) == IF op = "Sample" THEN SampleFieldOrder ELSE SampleIdFieldOrder

\* where the field of a flag starts on the wire: the bytes of the selected
\* fields that precede it in the order, nothing for the unselected ones
WireOffset(order, flag, config) ==
    LET i == CHOOSE k \in 1..Len(order) : order[k] = flag
    IN  Len(FieldsWire(SubSeq(order, 1, i - 1), config))

\* the integer of w bytes that lies skip bytes into the field of a flag
WireAt(order, flag, skip, w) ==
    LET off == WireOffset(order, flag, hist.config) + skip
    IN  Convert(hist.config.endian, SubSeq(hist.wire, off + 1, off + w))

\* what a field selected by a flag is to hold
Expected(order, flag, skip, w) ==
    IF flag \in hist.config.sample_type THEN Some(WireAt(order, flag, skip, w))
    ELSE None

\* of the two flags that select id, the one whose position comes first
EarlierIdFlag(order) ==
    IF WireOffset(order, "ID", SampleConfig({"ID", "IDENTIFIER"}, Little))
           < WireOffset(order, "IDENTIFIER", SampleConfig({"ID", "IDENTIFIER"}, Little))
    THEN "ID" ELSE "IDENTIFIER"

\* C9: in a decoded Sample and in a decoded SampleId, id is Some exactly
\* when IDENTIFIER or ID is in sample_type, and with both set id is the
\* value at the earlier of the two wire positions.
C9_EarlierIdWins ==
    (/\ pc = "done" /\ out.op \in {"Sample", "SampleId"}
     /\ out.res.ok)
        => /\ (out.res.val.id # None)
                <=> ({"IDENTIFIER", "ID"} \cap hist.config.sample_type # {})
           /\ {"IDENTIFIER", "ID"} \subseteq hist.config.sample_type
                => out.res.val.id
                     = Some(WireAt(OrderOf(out.op), EarlierIdFlag(OrderOf(out.op)), 0, 8))

\* the fixed-width fields of a Sample: the flag that selects each, where it
\* lies in the 8 bytes of the flag and how wide it is
FixedFields ==
    {[name |-> "ip", flag |-> "IP", skip |-> 0, w |-> 8],
     [name |-> "pid", flag |-> "TID", skip |-> 0, w |-> 4],
     [name |-> "tid", flag |-> "TID", skip |-> 4, w |-> 4],
     [name |-> "time", flag |-> "TIME", skip |-> 0, w |-> 8],
     [name |-> "addr", flag |-> "ADDR", skip |-> 0, w |-> 8],
     [name |-> "stream_id", flag |-> "STREAM_ID", skip |-> 0, w |-> 8],
     [name |-> "cpu", flag |-> "CPU", skip |-> 0, w |-> 4],
     [name |-> "period", flag |-> "PERIOD", skip |-> 0, w |-> 8],
     [name |-> "weight", flag |-> "WEIGHT", skip |-> 0, w |-> 8],
     [name |-> "data_src", flag |-> "DATA_SRC", skip |-> 0, w |-> 8],
     [name |-> "transaction", flag |-> "TRANSACTION", skip |-> 0, w |-> 8],
     [name |-> "phys_addr", flag |-> "PHYS_ADDR", skip |-> 0, w |-> 8],
     [name |-> "data_page_size", flag |-> "DATA_PAGE_SIZE", skip |-> 0, w |-> 8],
     [name |-> "code_page_size", flag |-> "CODE_PAGE_SIZE", skip |-> 0, w |-> 8]}

\* C10: for every sample_type, decoding a Sample from a body that holds all
\* the selected fields (and maybe more bytes) succeeds, and every
\* fixed-width field is Some of the integer at its wire position when its
\* flag is set and None when it is not; the positions are those of the
\* selected fields laid out one after the other in decode order.
C10_FixedWidthFields ==
    (pc = "done" /\ out.op = "Sample")
        => /\ out.res.ok
           /\ \A f \in FixedFields :
                  out.res.val[f.name]
                      = Expected(SampleFieldOrder, f.flag, f.skip, f.w)

-----------------------------------------------------------------------------
(* Driver: a Sample with a user stack, read by parse::<Sample>             *)

\* the longest payload of the user stack
MaxStack == 3

\* the sample_type values of the driver: the user stack alone, after a
\* fixed-width field, and before one
StackSampleTypes ==
    {{"STACK_USER"}, {"TIME", "STACK_USER"}, {"STACK_USER", "WEIGHT"}}

\* the dynamic sizes on the wire with a payload of size bytes: all that fit,
\* one too large, and a large one
DynSizes(size) == 0..(size + 1) \cup {LenCap - 1}

\* the user stack on the wire
StackUserWire(e, payload, dyn) ==
    Encode(e, Len(payload), 8) \o payload \o Encode(e, dyn, 8)

\* the Sample body of a config with the given user stack
StackSampleWire(config, payload, dyn) ==
    LET i == FlagIndex("STACK_USER")
    IN  FieldsWire(SubSeq(SampleFieldOrder, 1, i - 1), config)
            \o StackUserWire(config.endian, payload, dyn)
            \o FieldsWire(SubSeq(SampleFieldOrder, i + 1, Len(SampleFieldOrder)),
                          config)

InitStack ==
    \E sty \in StackSampleTypes, endian \in {Little, Big}, shape \in SourceShapes :
    \E size \in 0..MaxStack, extra \in {0, ExtraLen} :
    \E dyn \in DynSizes(size) :
        \E config \in {SampleConfig(sty, endian)} :
        \E body \in {StackSampleWire(config, Pattern(size, 51), dyn)} :
        \E wire \in {body \o Pattern(extra, 60)} :
        \E parser \in {Parser(SourceOf(wire, shape), config)} :
            /\ pc = "sample"
            /\ buf = parser
            /\ cur = NoCursor
            /\ out = [op |-> "none"]
            /\ hist = [type |-> "Sample", config |-> config, shape |-> shape,
                       body |-> body, wire |-> wire, before |-> parser,
                       payload |-> Pattern(size, 51), dyn |-> dyn]

NextStack == DoParseSample

SpecStack == InitStack /\ [][NextStack]_vars

\* C11: a Sample with STACK_USER set whose body holds the size, the payload
\* and the dynamic size fails with InvalidRecord when the dynamic size is
\* larger than the payload; otherwise stack_user is the first dynamic-size
\* bytes of the payload, borrowed or owned, and the decode has consumed the
\* 8 + size + 8 bytes of the user stack along with the other fields.
C11_StackUserTruncated ==
    (pc = "done" /\ out.op = "Sample")
        => IF hist.dyn > Len(hist.payload)
           THEN ~out.res.ok /\ out.res.err = "InvalidRecord"
           ELSE /\ out.res.ok
                /\ out.res.val.stack_user # None
                /\ out.res.val.stack_user[1].data = Take(hist.payload, hist.dyn)
                /\ Position(hist.before) - Position(out.res.p) = Len(hist.body)
                /\ Len(hist.body)
                     = 8 + Len(hist.payload) + 8
                         + 8 * (Cardinality(hist.config.sample_type) - 1)

\* a payload copied out of a chunked source and cut to a shorter, non-empty
\* dynamic size
C11_Witness ==
    /\ pc = "done" /\ out.op = "Sample"
    /\ out.res.ok
    /\ out.res.val.stack_user # None
    /\ out.res.val.stack_user[1].owned
    /\ out.res.val.stack_user[1].data # <<>>
    /\ Len(out.res.val.stack_user[1].data) < Len(hist.payload)

-----------------------------------------------------------------------------
(* Driver: counter values read under a config made from a perf_event_attr  *)

\* the most bits set in the attr's read_format besides the chosen flags
MaxRawBits == 2

\* the bits of ReadFormat::all()
SupportedReadBits == {b \in Word : b < Len(ReadFormatFlags)}

\* the sets of up to MaxRawBits bits of a u64
FewBits ==
    {{f[i] : i \in 1..MaxRawBits} \cap Word :
        f \in [1..MaxRawBits -> Word \cup {WordBits}]}

\* the read_format values of the attr: no flag, GROUP with ID, or all the
\* flags but GROUP, each with up to MaxRawBits more bits anywhere in the u64
RawReadFormats ==
    {base \cup more : base \in {{}, {2, 3}, {0, 1, 2, 4}}, more \in FewBits}

\* impl From<perf_event_attr> for ParseConfig, for an attr with the given
\* read_format and sample_type and nothing else set
FromAttr(read_format, sample_type, endian) ==
    ConfigOf(ConfigFlagsNew(read_format, sample_type, FALSE, FALSE, 0),
             {}, {}, endian)

InitRead ==
    \E raw \in RawReadFormats, endian \in {Little, Big} :
    \E shape \in {s \in SourceShapes : s.kind = "slice" /\ s.addr = 0} :
        \E config \in {FromAttr(raw, {}, endian)} :
        \E wire \in {ReadWire(config) \o Pattern(ExtraLen, 60)} :
        \E parser \in {Parser(SourceOf(wire, shape), config)} :
            /\ pc = "read"
            /\ buf = parser
            /\ cur = NoCursor
            /\ out = [op |-> "none"]
            /\ hist = [raw |-> raw, config |-> config, shape |-> shape,
                       wire |-> wire, before |-> parser]

\* parser.parse::<ReadValue>()
DoParseReadValue ==
    /\ pc = "read"
    /\ \E res \in {ParseReadValue(buf)} :
           /\ out' = [op |-> "ReadValue", res |-> res,
                      panicked |-> Panicked(res.p)]
           /\ buf' = res.p
    /\ pc' = "done"
    /\ UNCHANGED <<cur, hist>>

\* parser.parse::<ReadGroup>()
DoParseReadGroup ==
    /\ pc = "read"
    /\ \E res \in {ParseReadGroup(buf)} :
           /\ out' = [op |-> "ReadGroup", res |-> res,
                      panicked |-> Panicked(res.p)]
           /\ buf' = res.p
    /\ pc' = "done"
    /\ UNCHANGED <<cur, hist>>

NextRead == DoParseReadValue \/ DoParseReadGroup

SpecRead == InitRead /\ [][NextRead]_vars

\* C12: when the read_format of the attr has a bit that is no flag of
\* ReadFormat, wherever in the u64 it lies, decoding a ReadValue or a
\* ReadGroup fails with UnsupportedConfig and consumes nothing.
C12_UnsupportedReadFormat ==
    (/\ pc = "done" /\ out.op \in {"ReadValue", "ReadGroup"}
     /\ hist.raw \ SupportedReadBits # {})
        => /\ ~out.res.ok
           /\ out.res.err = "UnsupportedConfig"
           /\ Position(out.res.p) = Position(hist.before)

\* a ReadGroup refused for bits that all lie above the packed field, with
\* GROUP set
C12_Witness ==
    /\ pc = "done" /\ out.op = "ReadGroup"
    /\ 3 \in hist.raw
    /\ hist.raw \ SupportedReadBits # {}
    /\ hist.raw \ SupportedReadBits \subseteq From(READ_FORMAT_WIDTH)
    /\ out.res.err = "UnsupportedConfig"

-----------------------------------------------------------------------------
(* Driver: parse_slice_direct::<u64> and parse_slice::<u64> on a source    *)

\* the longest source, in bytes
MaxSliceBytes == 17
\* the most elements asked for
MaxElems == 2

\* a config that sets no flag
PlainConfig(endian) == Config({}, {}, FALSE, FALSE, 0, {}, {}, endian)

InitSlice ==
    \E n \in 0..MaxSliceBytes, endian \in {Little, Big}, shape \in SourceShapes :
        \E parser \in {Parser(SourceOf(Pattern(n, 61), shape),
                               PlainConfig(endian))} :
            /\ pc = "slice"
            /\ buf = parser
            /\ cur = NoCursor
            /\ out = [op |-> "none"]
            /\ hist = [bytes |-> Pattern(n, 61), shape |-> shape,
                       before |-> parser]

\* parser.parse_slice_direct::<u64>(len)
DoParseSliceDirect ==
    /\ pc = "slice"
    /\ \E len \in 0..MaxElems :
       \E res \in {ParseSliceDirect(buf, Digits(len, 8), <<8>>)} :
           /\ out' = [op |-> "parse_slice_direct", len |-> len, res |-> res,
                      panicked |-> Panicked(res.p)]
           /\ buf' = res.p
    /\ pc' = "done"
    /\ UNCHANGED <<cur, hist>>

\* parser.parse_slice::<u64>(len)
DoParseSlice ==
    /\ pc = "slice"
    /\ \E len \in 0..MaxElems :
       \E res \in {ParseSlice(buf, Digits(len, 8), <<8>>)} :
           /\ out' = [op |-> "parse_slice", len |-> len, res |-> res,
                      panicked |-> Panicked(res.p)]
           /\ buf' = res.p
    /\ pc' = "done"
    /\ UNCHANGED <<cur, hist>>

NextSlice == DoParseSliceDirect \/ DoParseSlice

SpecSlice == InitSlice /\ [][NextSlice]_vars

\* the bytes the call asked for, and the elements they hold
ByteLen == 8 * out.len
NextElems ==
    Reinterpret(hist.before.config.endian, Take(hist.bytes, ByteLen), <<8>>)

\* whether parse_slice_direct is to answer None on the source as the call
\* found it: the endian is not native, or the chunk is not External, is
\* shorter than the bytes asked for, or holds them at a misaligned address
MustFallBack ==
    LET chunk == Chunk(hist.before.data)
    IN  \/ ~IsNative(hist.before.config.endian)
        \/ /\ chunk.ok
           /\ \/ ~chunk.ext
              \/ Len(chunk.data) < ByteLen
              \/ ByteLen > 0 /\ chunk.addr % AlignMod # 0

\* C13: parse_slice_direct answers with a slice of exactly the next
\* len * size_of(T) bytes and the parser that far on, or with None and the
\* parser where it was; it answers None whenever the endian is not native
\* and whenever the chunk is not External, too short or misaligned.  So
\* parse_slice gives the elements of the next len * size_of(T) bytes and
\* ends right after them, on the direct and on the copying path alike.
C13_DirectOrUntouched ==
    /\ (pc = "done" /\ out.op = "parse_slice_direct" /\ out.res.ok)
        => /\ IF out.res.val.some
              THEN /\ Len(hist.bytes) >= ByteLen
                   /\ out.res.val.data = NextElems
                   /\ Position(hist.before) - Position(out.res.p) = ByteLen
              ELSE Unread(out.res.p.data) = Unread(hist.before.data)
           /\ MustFallBack => ~out.res.val.some
    /\ (pc = "done" /\ out.op = "parse_slice" /\ out.res.ok)
        => /\ Len(hist.bytes) >= ByteLen
           /\ out.res.val.data = NextElems
           /\ Position(hist.before) - Position(out.res.p) = ByteLen

-----------------------------------------------------------------------------
(* Properties of the metadata                                              *)

\* the bytes that follow the header in the source, and how many of them the
\* header declares
AfterHeader == Drop(Unread(hist.before.data), HeaderLen)
DataLen == hist.size - HeaderLen

\* the integer of w bytes that lies skip bytes into the field of a flag in
\* a SampleId trailer
TrailerAt(trailer, config, flag, skip, w) ==
    LET off == WireOffset(SampleIdFieldOrder, flag, config) + skip
    IN  IF flag \in config.sample_type
        THEN Some(Convert(config.endian, SubSeq(trailer, off + 1, off + w)))
        ELSE None

\* the SampleId that the bytes of a trailer hold under a config
TrailerSampleId(trailer, config) ==
    IF ~config.sample_id_all THEN EmptySampleId
    ELSE [pid |-> TrailerAt(trailer, config, "TID", 0, 4),
          tid |-> TrailerAt(trailer, config, "TID", 4, 4),
          time |-> TrailerAt(trailer, config, "TIME", 0, 8),
          id |-> IF "ID" \in config.sample_type
                 THEN TrailerAt(trailer, config, "ID", 0, 8)
                 ELSE TrailerAt(trailer, config, "IDENTIFIER", 0, 8),
          stream_id |-> TrailerAt(trailer, config, "STREAM_ID", 0, 8),
          cpu |-> TrailerAt(trailer, config, "CPU", 0, 4)]

\* C14: parse_metadata succeeds on a well-formed record, and when it
\* succeeds: for MMAP and SAMPLE the SampleId is empty and the body parser
\* holds all size - 8 bytes after the header, whatever sample_id_all is;
\* for every other type the body parser holds the first
\* size - 8 - estimate_len(config) of them and the SampleId is the decode
\* of the estimate_len bytes that follow.
C14_TrailerSplit ==
    (pc = "done" /\ out.op = "parse_metadata")
        => /\ hist.wellformed => out.res.ok
           /\ out.res.ok =>
                LET config == hist.before.config
                    est == IF hist.kind \in {"MMAP", "SAMPLE"} THEN 0
                           ELSE EstimateLen(config)
                    body == out.res.val.p
                    sample_id == out.res.val.metadata.sample_id
                IN  /\ Unread(body.data) = Take(AfterHeader, DataLen - est)
                    /\ Len(Unread(body.data)) = hist.size - HeaderLen - est
                    /\ sample_id
                         = IF hist.kind \in {"MMAP", "SAMPLE"} THEN EmptySampleId
                           ELSE TrailerSampleId(
                                    SubSeq(AfterHeader, DataLen - est + 1, DataLen),
                                    config)

\* a record of unknown type with a body and a trailer of three fields
C14_Witness ==
    /\ pc = "done" /\ out.op = "parse_metadata"
    /\ out.res.ok
    /\ hist.kind = "UNKNOWN"
    /\ hist.body # <<>>
    /\ EstimateLen(hist.before.config) = 24
    /\ out.res.val.metadata.sample_id.cpu # None

-----------------------------------------------------------------------------
(* Driver: parse_record on a slice that holds a damaged record             *)

\* how many of the 8-byte words of a record may be overwritten
MaxFuzzPos == 8

\* the words written over a word of the record: all zero, all ones, and a
\* count of two in little-endian order
FuzzWords ==
    {[i \in 1..8 |-> 0], [i \in 1..8 |-> 255], [i \in 1..8 |-> IF i = 1 THEN 2 ELSE 0]}

\* the bytes with the i-th word overwritten, when they hold one
Overwrite(bytes, i, word) ==
    IF 8 * i > Len(bytes) THEN bytes
    ELSE SubSeq(bytes, 1, 8 * (i - 1)) \o word
             \o SubSeq(bytes, 8 * i + 1, Len(bytes))

\* the bytes as they are and with one of the first MaxFuzzPos words
\* overwritten
Damaged(bytes) ==
    {bytes} \cup {Overwrite(bytes, i, word) : i \in 1..MaxFuzzPos, word \in FuzzWords}

\* every flag of SampleFlags, and those of a variable-length field
AllSampleFlags == {SampleFlagList[i] : i \in DOMAIN SampleFlagList}
VariableFlags ==
    {"READ", "CALLCHAIN", "RAW", "BRANCH_STACK", "REGS_USER", "STACK_USER", "AUX"}

\* the configs of the driver, each with the misc of the header and the
\* address of the slice: the default one, one whose packed word has every
\* bit set, every flag of the crate in either byte order, and each
\* variable-length field of a Sample on its own
FuzzConfigs ==
    {[config |-> PlainConfig(Little), misc |-> 0, addr |-> 0],
     [config |-> ConfigOf(Word, {0}, {0, 1}, Little), misc |-> 65535, addr |-> 4],
     [config |-> Config(AllSampleFlags, ReadFormatAll, TRUE, TRUE, 0, {0}, {0, 1}, Little),
      misc |-> 2 ^ MmapBuildIdBit, addr |-> 0],
     [config |-> Config(AllSampleFlags, ReadFormatAll \ {"GROUP"}, TRUE, FALSE, 0,
                        {0, 1}, {}, Big),
      misc |-> 2 ^ SwitchOutBit, addr |-> 4]}
    \cup {[config |-> Config({flag}, {"GROUP", "ID"}, FALSE, TRUE, 0, {0}, {0}, Little),
           misc |-> 2 ^ MmapBuildIdBit, addr |-> IF flag \in {"RAW", "AUX"} THEN 4 ELSE 0] :
            flag \in VariableFlags}

InitFuzz ==
    \E fc \in FuzzConfigs, t \in 1..UnknownTag :
    \E kind \in {IF t = UnknownTag THEN "UNKNOWN" ELSE RecordKinds[t]} :
    \E trailer \in {TrailerOf(kind, fc.config)} :
    \E body \in {IF t = UnknownTag THEN Pattern(MaxUnknownLen, 9)
                 ELSE BodyOf(kind, fc.config, fc.misc)} :
    \E rest \in Damaged(body \o trailer) :
    \E fr \in Framings(HeaderLen + Len(rest), Len(trailer)) :
        \E full \in {HeaderWire(fc.config.endian, t, fc.misc, fr.size)
                         \o rest \o <<254, 253>>} :
        \E parser \in {Parser(SliceBuf(Take(full, fr.keep), fc.addr),
                               fc.config)} :
            /\ pc = "record"
            /\ buf = parser
            /\ cur = NoCursor
            /\ out = [op |-> "none"]
            /\ hist = [kind |-> kind, tag |-> t, size |-> fr.size,
                       damaged |-> rest # body \o trailer,
                       before |-> parser]

NextFuzz == DoParseRecord

SpecFuzz == InitFuzz /\ [][NextFuzz]_vars

\* ErrorKind
ErrorKinds == {"Eof", "InvalidRecord", "UnsupportedConfig"}

\* C15: parse_record on a slice, whatever its bytes and the config, returns
\* Ok or an error and never panics: no advance past the end of a buffer or
\* a cursor, no index out of range.
C15_NeverPanics ==
    (pc = "done" /\ out.op = "parse_record")
        => /\ ~out.panicked
           /\ out.res.ok \/ out.res.err \in ErrorKinds

\* a damaged Sample whose size is right for the bytes and which is refused
\* as invalid
C15_Witness ==
    /\ pc = "done" /\ out.op = "parse_record"
    /\ hist.kind = "SAMPLE" /\ hist.damaged
    /\ hist.size = Len(Unread(hist.before.data)) - 2
    /\ out.res.err = "InvalidRecord"
    /\ ~out.panicked

-----------------------------------------------------------------------------
(* Driver: the capacity reserved by parse_bytes and parse_repeated         *)

\* the most bytes a source of the driver holds
MaxCapBytes == 10
\* the most bytes read before the call that reserves
MaxSkip == 3
\* the largest of the small lengths asked for
MaxCapLen == 3

\* the lengths asked for: small ones, the bytes of the source, and lengths
\* beyond DEFAULT_LEN
CapLens(n) == (0..MaxCapLen) \cup {n, DEFAULT_LEN + 1, LenCap - 1}

\* size_of::<T>() of the element types of the driver: u8, u16, u32, u64
ElemSizes == {1, 2, 4, 8}

\* the parser over a source, or over the cursor that split_at makes of all
\* of its bytes
CapParser(bytes, shape, cursor) ==
    IF cursor
    THEN SplitAt(Parser(SourceOf(bytes \o <<254, 253>>, shape), PlainConfig(Little)),
                 Len(bytes)).val
    ELSE Parser(SourceOf(bytes, shape), PlainConfig(Little))

InitCapacity ==
    \E n \in 0..MaxCapBytes, shape \in SourceShapes, cursor \in BOOLEAN :
    \E parser \in {CapParser(Pattern(n, 62), shape, cursor)} :
        /\ pc = "capacity"
        /\ buf = parser
        /\ cur = NoCursor
        /\ out = [op |-> "none"]
        /\ hist = [n |-> n, shape |-> shape, cursor |-> cursor, skipped |-> 0]

\* some bytes are read first
DoSkipBytes ==
    /\ pc = "capacity" /\ hist.skipped = 0
    /\ \E k \in 1..MaxSkip :
       \E res \in {ParseBytes(buf, k)} :
           /\ res.ok
           /\ buf' = res.p
           /\ hist' = [hist EXCEPT !.skipped = k]
    /\ UNCHANGED <<pc, cur, out>>

DoParseBytes ==
    /\ pc = "capacity"
    /\ \E len \in CapLens(hist.n) :
       \E res \in {ParseBytes(buf, len)} :
           /\ out' = [op |-> "parse_bytes", len |-> len, size |-> 1,
                      capacity |-> ParseBytesCapacity(buf, len),
                      hint |-> RemainingHint(buf.data),
                      unread |-> Len(Unread(buf.data)),
                      ok |-> res.ok]
           /\ buf' = res.p
    /\ pc' = "done"
    /\ UNCHANGED <<cur, hist>>

DoParseRepeated ==
    /\ pc = "capacity"
    /\ \E len \in CapLens(hist.n), size \in ElemSizes :
       \E res \in {ParseRepeated(buf, len, <<size>>)} :
           /\ out' = [op |-> "parse_repeated", len |-> len, size |-> size,
                      capacity |-> ParseRepeatedCapacity(buf, len, size),
                      hint |-> RemainingHint(buf.data),
                      unread |-> Len(Unread(buf.data)),
                      ok |-> res.ok]
           /\ buf' = res.p
    /\ pc' = "done"
    /\ UNCHANGED <<cur, hist>>

NextCapacity == DoSkipBytes \/ DoParseBytes \/ DoParseRepeated

SpecCapacity == InitCapacity /\ [][NextCapacity]_vars

\* the bytes that bound the reservation: those unread when the source
\* gives a hint, DEFAULT_LEN when it gives none
HintBytes == IF out.hint = -1 THEN DEFAULT_LEN ELSE out.unread

\* C16: the capacity reserved by parse_bytes(len) or parse_repeated::<T>(len)
\* before reading is at most min(len, H / size_of(T)), H being the bytes
\* unread when the source gives a remaining_hint and 16384 when it gives
\* none; for slices, chunked readers and cursors alike.
C16_CapacityBounded ==
    (pc = "done" /\ out.op \in {"parse_bytes", "parse_repeated"} /\ out.capacity # -1)
        => out.capacity <= Min(out.len, HintBytes \div out.size)

-----------------------------------------------------------------------------
(* Driver: parse_rest_trim_nul on what is left of a buffer                 *)

\* the most bytes left in the buffer
MaxRestLen == 5

\* the bytes left: every mix of NUL and another byte up to MaxRestLen, and
\* the name of the test of comm.rs, "test" and four NULs
RestBytes ==
    UNION {[1..n -> {0, 7}] : n \in 0..MaxRestLen}
        \cup {<<116, 101, 115, 116, 0, 0, 0, 0>>}

\* pid 0x1010 and tid 0x0500 of a Comm, as in the test of comm.rs
CommIds == Encode(Little, 4112, 4) \o Encode(Little, 1280, 4)

InitRest ==
    \E bytes \in RestBytes, shape \in SourceShapes, cursor \in BOOLEAN,
       ids \in {<<>>, CommIds} :
    \E parser \in {CapParser(ids \o bytes, shape, cursor)} :
        /\ pc = "rest"
        /\ buf = parser
        /\ cur = NoCursor
        /\ out = [op |-> "none"]
        /\ hist = [bytes |-> bytes, comm |-> ids # <<>>]

DoParseRestTrimNul ==
    /\ pc = "rest" /\ ~hist.comm
    /\ \E res \in {ParseRestTrimNul(buf)} :
           /\ out' = [op |-> "parse_rest_trim_nul", res |-> [res EXCEPT !.p = 0]]
           /\ buf' = res.p
    /\ pc' = "done"
    /\ UNCHANGED <<cur, hist>>

\* a Comm whose name is what is left: pid and tid, then parse_rest_trim_nul
DoParseComm ==
    /\ pc = "rest" /\ hist.comm
    /\ \E res \in {ParseKind(buf, "COMM")} :
           /\ out' = [op |-> "parse_comm", res |-> [res EXCEPT !.p = 0]]
           /\ buf' = res.p
    /\ pc' = "done"
    /\ UNCHANGED <<cur, hist>>

NextRest == DoParseRestTrimNul \/ DoParseComm

SpecRest == InitRest /\ [][NextRest]_vars

\* bytes is rest without some NULs at its end, and does not end in NUL
TrimmedOf(bytes, rest) ==
    /\ Len(bytes) <= Len(rest)
    /\ \A i \in 1..Len(rest) :
           IF i <= Len(bytes) THEN bytes[i] = rest[i] ELSE rest[i] = 0
    /\ bytes = <<>> \/ bytes[Len(bytes)] # 0

\* C17: parse_rest_trim_nul returns the bytes left in the buffer without
\* their trailing NULs (the result does not end in NUL, NULs inside are
\* kept, and the result followed by NULs is what was left), and the buffer
\* is consumed to its end; as the name of a Comm, "test" and four NULs is
\* "test".
C17_TrimNul ==
    /\ (pc = "done" /\ out.op = "parse_rest_trim_nul")
        => /\ out.res.ok
           /\ TrimmedOf(out.res.val.data, hist.bytes)
           /\ Unread(buf.data) = <<>>
    /\ (pc = "done" /\ out.op = "parse_comm")
        => /\ out.res.ok
           /\ TrimmedOf(out.res.val.name.data, hist.bytes)
           /\ Unread(buf.data) = <<>>

-----------------------------------------------------------------------------
(* Driver: the builders of ParseConfig on arbitrary packed words           *)

\* RawParseConfig and ParseConfig<E>, as the structs are laid out
RawParseConfig(config_flags, sample_regs_user, sample_regs_intr) ==
    [config_flags |-> config_flags, sample_regs_user |-> sample_regs_user,
     sample_regs_intr |-> sample_regs_intr]
ParseConfig(config, endian) == [config |-> config, endian |-> endian]

\* ParseConfig::with_endian
with_endian(self, endian) == ParseConfig(self.config, endian)

\* ParseConfig::with_sample_type
with_sample_type(self, sample_type) ==
    [self EXCEPT !.config.config_flags = SetSampleType(@, sample_type)]

\* ParseConfig::with_misc
with_misc(self, misc) ==
    [self EXCEPT !.config.config_flags = SetMisc(@, misc)]

\* the accessors of ParseConfig, all at once
Accessors(self) ==
    ConfigOf(self.config.config_flags, self.config.sample_regs_user,
             self.config.sample_regs_intr, self.endian)

\* the bits at the edges of the ranges of ConfigFlags, and one in the
\* middle of sample_type
EdgeBits ==
    {READ_FORMAT_OFFSET, SAMPLE_TYPE_OFFSET - 1, SAMPLE_TYPE_OFFSET,
     SAMPLE_ID_ALL_OFFSET - 1, SAMPLE_ID_ALL_OFFSET, BRANCH_HW_INDEX_OFFSET,
     MISC_OFFSET, WordBits - 1}

\* the packed words of the driver: any choice of the edge bits, with every
\* other bit clear or every other bit set
PackedWords ==
    {s : s \in SUBSET EdgeBits} \cup {(Word \ EdgeBits) \cup s : s \in SUBSET EdgeBits}

\* the values of misc of the driver: any choice of four of its bits, and
\* all of them
MiscBits == {0, 1, 13, 15}
MiscValues == {ValueOf(s) : s \in SUBSET MiscBits} \cup {2 ^ MISC_WIDTH - 1}

\* the sample types written by with_sample_type, as u64s: flags of the
\* crate, bits the range has room for, and bits it has no room for
SampleTypeWords == {{}, {0, 24}, {25, 39}, {40, 63}, Word}

InitConfig ==
    \E flags \in PackedWords, regs \in {<<{}, {0}>>, <<{0, 63}, {}>>},
       endian \in {Little, Big} :
    \E config \in {ParseConfig(RawParseConfig(flags, regs[1], regs[2]), endian)} :
        /\ pc = "config"
        /\ buf = Parser(SliceBuf(<<>>, 0), Accessors(config))
        /\ cur = NoCursor
        /\ out = [op |-> "none"]
        /\ hist = [before |-> config]

DoWithMisc ==
    /\ pc = "config"
    /\ \E misc \in MiscValues :
       \E config \in {with_misc(hist.before, misc)} :
           /\ out' = [op |-> "with_misc", misc |-> misc, config |-> config]
           /\ buf' = Parser(buf.data, WithMisc(buf.config, misc))
    /\ pc' = "done"
    /\ UNCHANGED <<cur, hist>>

DoWithEndian ==
    /\ pc = "config"
    /\ \E endian \in {Little, Big} :
       \E config \in {with_endian(hist.before, endian)} :
           /\ out' = [op |-> "with_endian", endian |-> endian, config |-> config]
           /\ buf' = Parser(buf.data, Accessors(config))
    /\ pc' = "done"
    /\ UNCHANGED <<cur, hist>>

DoWithSampleType ==
    /\ pc = "config"
    /\ \E sample_type \in SampleTypeWords :
       \E config \in {with_sample_type(hist.before, sample_type)} :
           /\ out' = [op |-> "with_sample_type", sample_type |-> sample_type,
                      config |-> config]
           /\ buf' = Parser(buf.data, Accessors(config))
    /\ pc' = "done"
    /\ UNCHANGED <<cur, hist>>

NextConfig == DoWithMisc \/ DoWithEndian \/ DoWithSampleType

SpecConfig == InitConfig /\ [][NextConfig]_vars

\* the ranges of the packed word, by name
Ranges ==
    [read_format |-> READ_FORMAT, sample_type |-> SAMPLE_TYPE,
     sample_id_all |-> SAMPLE_ID_ALL, branch_hw_index |-> BRANCH_HW_INDEX,
     misc |-> MISC]

\* the bits that the largest flag of SampleFlags needs
SampleTypeBitsNeeded == Len(SampleFlagList)

\* C18: the ranges of read_format, sample_type, sample_id_all,
\* branch_hw_index and misc in the packed word do not overlap pairwise (no
\* bit of a config lies in two of them), and the range of sample_type is at
\* least 8 bits wider than the largest flag of SampleFlags needs.
C18_RangesDisjoint ==
    /\ \A a, b \in DOMAIN Ranges : a # b => Ranges[a] \cap Ranges[b] = {}
    /\ \A bit \in hist.before.config.config_flags :
           Cardinality({a \in DOMAIN Ranges : bit \in Ranges[a]}) <= 1
    /\ Cardinality(SAMPLE_TYPE) >= SAMPLE_TYPE_WIDTH + 8
    /\ Cardinality(SAMPLE_TYPE) >= SampleTypeBitsNeeded + 8

\* a config with a bit set in every range, after a sample type was written
\* that fills the whole range of sample_type
C18_Witness ==
    /\ pc = "done" /\ out.op = "with_sample_type" /\ out.sample_type = Word
    /\ \A a \in DOMAIN Ranges : Ranges[a] \cap out.config.config.config_flags # {}
    /\ GetMisc(out.config.config.config_flags) = GetMisc(hist.before.config.config_flags)

\* C19: for every config, arbitrary packed words included, and every u16 m,
\* with_misc(m) gives a config whose misc() is m and whose read_format,
\* sample_type, sample_id_all, branch_hw_index, regs_user, regs_intr and
\* endian are those of before; with_endian(e) gives a config whose endian is
\* e and whose other accessors, misc included, are those of before.
C19_BuildersFrame ==
    /\ (pc = "done" /\ out.op = "with_misc")
        => /\ Accessors(out.config) = [Accessors(hist.before) EXCEPT !.misc = out.misc]
           /\ Accessors(out.config).misc = out.misc
           /\ buf.config = Accessors(out.config)
    /\ (pc = "done" /\ out.op = "with_endian")
        => /\ Accessors(out.config) = [Accessors(hist.before) EXCEPT !.endian = out.endian]
           /\ Accessors(out.config).endian = out.endian

\* with_misc on a packed word with every bit set, to a misc that clears
\* bits; with no other accessor changed
C19_Witness ==
    /\ pc = "done" /\ out.op = "with_misc" /\ out.misc = 2 ^ 13
    /\ hist.before.config.config_flags = Word
    /\ GetMisc(out.config.config.config_flags) = 2 ^ 13
    /\ GetSampleType(out.config.config.config_flags) = Below(SAMPLE_ID_ALL_OFFSET - SAMPLE_TYPE_OFFSET)

-----------------------------------------------------------------------------
(* impl Parse for perf_event_attr                                          *)

\* PERF_ATTR_SIZE_VER0 .. PERF_ATTR_SIZE_VER8 of the kernel ABI
AttrSizes == <<64, 72, 80, 96, 104, 112, 120, 128, 136>>

\* PERF_ATTR_SIZE_MAX = PERF_ATTR_SIZE_VER8
PERF_ATTR_SIZE_MAX == AttrSizes[Len(AttrSizes)]

\* the widths of the fields that each version adds after type_ and size.
\* VER0: config, sample_period, sample_type, read_format, the bitfield,
\* wakeup_events, bp_type, config1; VER1: config2; VER2:
\* branch_sample_type; VER3: sample_regs_user, sample_stack_user, clockid;
\* VER4: sample_regs_intr; VER5: aux_watermark, sample_max_stack, a u16;
\* VER6: aux_sample_size, a u32; VER7: sig_data; VER8: config3
AttrFields ==
    <<<<8, 8, 8, 8, 8, 4, 4, 8>>, <<8>>, <<8>>, <<8, 4, 4>>, <<8>>,
      <<4, 2, 2>>, <<4, 4>>, <<8>>, <<8>>>>

\* the fields read for a size: those of every version that the size reaches
RECURSIVE AttrLayout(_, _)
AttrLayout(size, v) ==
    IF v > Len(AttrSizes) \/ size < AttrSizes[v] THEN <<>>
    ELSE AttrFields[v] \o AttrLayout(size, v + 1)

\* mem::size_of_val(&attr.size)
AttrSizeFieldLen == 4

\* the kind of the error for bytes after the last known field that are not
\* zero, as perf_event_attr.rs names it
AttrTailErrorKind == "UnsupportedData"

\* the check of the bytes after the last known field
AttrTail(p, attr) ==
    With([rest \in {ParseRest(p)} |-> Then(rest,
        IF \E i \in 1..Len(rest.val.data) : rest.val.data[i] # 0
        THEN Err(AttrTailErrorKind, rest.p)
        ELSE Ok(attr, rest.p))])

\* impl Parse for perf_event_attr, after the split: the fields of the
\* versions, then the check of the tail; outer is the parser that was given
ParsePerfEventAttrFields(outer, p, ty, size) ==
    With([f \in {ParseFields(p, AttrLayout(NumVal(size), 1), <<>>)} |->
        IF ~f.ok THEN Err(f.err, outer)
        ELSE IF NumVal(size) > PERF_ATTR_SIZE_MAX
        THEN With([t \in {AttrTail(f.p, [type |-> ty, size |-> size, fields |-> f.val])} |->
                 IF t.ok THEN Ok(t.val, outer) ELSE Err(t.err, outer)])
        ELSE Ok([type |-> ty, size |-> size, fields |-> f.val], outer)])

\* impl Parse for perf_event_attr: the result carries the parser that was
\* given, as the call leaves it
ParsePerfEventAttr(p) ==
    With([ty \in {ParseU32(p)} |-> Then(ty,
    With([size \in {ParseU32(ty.p)} |-> Then(size,
        IF /\ NumVal(size.val) <= PERF_ATTR_SIZE_MAX
           /\ NumVal(size.val) \notin {AttrSizes[v] : v \in DOMAIN AttrSizes}
        THEN Err("InvalidRecord", size.p)
        ELSE With([sp \in {SplitAt(size.p, NumVal(size.val) - AttrSizeFieldLen)} |-> Then(sp,
                 ParsePerfEventAttrFields(sp.p, sp.val, ty.val, size.val))]))]))])

-----------------------------------------------------------------------------
(* Driver: a perf_event_attr of every size, some longer than the last      *)
(* known layout                                                            *)

\* the most bytes a descriptor has after the last known layout, in words
\* of 8 bytes
MaxAttrExtraWords == 2

\* the sizes of the driver: the known ones, some that are none of them, and
\* some beyond the last
AttrSizeChoices ==
    {AttrSizes[v] : v \in DOMAIN AttrSizes}
        \cup {0, 3, 8, 63, 100}
        \cup {PERF_ATTR_SIZE_MAX + 8 * k : k \in 1..MaxAttrExtraWords}

\* the bytes after the last known layout: all zero, or zero but for one
\* byte
TailChoices(len) ==
    {[i \in 1..len |-> 0]}
        \cup {[i \in 1..len |-> IF i = k THEN 9 ELSE 0] : k \in 1..len}

\* what follows the descriptor in the source
FollowChoices ==
    {<<>>, <<0, 0, 0, 0>>, <<1, 0, 0, 0>>, <<0, 0, 0, 0, 5, 0, 0, 0>>}

\* the bytes of a descriptor of a size: type_, size, the known fields, and
\* the tail
AttrWire(e, size, tail) ==
    Encode(e, 1, 4) \o Encode(e, size, 4)
        \o Pattern(Min(size, PERF_ATTR_SIZE_MAX) - 8, 63) \o tail

InitAttr ==
    \E size \in AttrSizeChoices, follow \in FollowChoices, endian \in {Little, Big},
       shape \in SourceShapes :
    \E tail \in TailChoices(IF size > PERF_ATTR_SIZE_MAX
                            THEN size - PERF_ATTR_SIZE_MAX ELSE 0) :
    \E wire \in {IF size < 8 THEN Encode(endian, 1, 4) \o Encode(endian, size, 4)
                 ELSE AttrWire(endian, size, tail)} :
    \E parser \in {Parser(SourceOf(wire \o follow, shape), PlainConfig(endian))} :
        /\ pc = "attr"
        /\ buf = parser
        /\ cur = NoCursor
        /\ out = [op |-> "none"]
        /\ hist = [size |-> size, tail |-> tail, follow |-> follow]

DoParsePerfEventAttr ==
    /\ pc = "attr"
    /\ \E res \in {ParsePerfEventAttr(buf)} :
           /\ out' = [op |-> "parse_perf_event_attr", ok |-> res.ok,
                      err |-> IF res.ok THEN "none" ELSE res.err,
                      panicked |-> Panicked(res.p)]
           /\ buf' = res.p
    /\ pc' = "done"
    /\ UNCHANGED <<cur, hist>>

NextAttr == DoParsePerfEventAttr

SpecAttr == InitAttr /\ [][NextAttr]_vars

\* C20: a perf_event_attr whose size is beyond the largest known layout
\* must have only zero bytes after that layout: with a byte there that is
\* not zero the decode fails with InvalidRecord, with all of them zero it
\* succeeds.
C20_AttrTailMustBeZero ==
    (pc = "done" /\ out.op = "parse_perf_event_attr"
        /\ hist.size > PERF_ATTR_SIZE_MAX)
        => IF \E i \in 1..Len(hist.tail) : hist.tail[i] # 0
           THEN ~out.ok /\ out.err = "InvalidRecord"
           ELSE out.ok

-----------------------------------------------------------------------------
(* trait Visitor: the default methods                                      *)

\* the visit_* methods of the trait
VisitorMethods ==
    {VisitMethod(RecordKinds[t]) : t \in DOMAIN RecordKinds} \cup {"visit_unknown"}

\* Mmap2::into_mmap: pid, tid, addr, len, pgoff and filename
IntoMmapNoPgoff(record) ==
    [fields |-> SubSeq(record.fields, 1, 4), name |-> record.name]
IntoMmap(record) ==
    [fields |-> SubSeq(record.fields, 1, 5), name |-> record.name]

\* the method that the default body of a method calls
DefaultTarget(method) ==
    IF method = "visit_mmap2" THEN "visit_mmap" ELSE "visit_unimplemented"

\* a call of a method of a visitor that overrides some methods: the call
\* that in the end reaches code of the implementor.  visit_unimplemented
\* gets the metadata alone
VisitorCall(overrides, method, record, metadata) ==
    IF method \in overrides THEN Visit(method, record, metadata)
    ELSE IF DefaultTarget(method) = "visit_mmap" /\ "visit_mmap" \in overrides
    THEN Visit("visit_mmap", IntoMmap(record), metadata)
    ELSE Visit("visit_unimplemented", None, metadata)

-----------------------------------------------------------------------------
(* Driver: every method of a visitor, called with a decoded record         *)

\* the methods a visitor of the driver overrides, besides
\* visit_unimplemented
OverrideChoices(method) ==
    {{}, {"visit_mmap"}, {"visit_mmap2"}, {"visit_mmap", "visit_mmap2"}, {method}}

\* the record a method is called with: the decoded body of its kind, the
\* bytes for visit_unknown, nothing for visit_switch
RecordFor(kind, config, misc) ==
    With([p \in {Parser(SliceBuf(BodyOf(kind, config, misc), 0),
                        WithMisc(config, misc))} |->
        IF kind \in DispatchedKinds THEN ParseKind(p, kind).val
        ELSE IF kind = "SWITCH" THEN None
        ELSE Borrowed(Pattern(MaxUnknownLen, 9))])

InitVisit ==
    \E rc \in RecordConfigs, t \in 1..UnknownTag :
    \E kind \in {KindOf(t)} :
    \E overrides \in OverrideChoices(VisitMethod(kind)) :
    \E record \in {RecordFor(kind, rc.config, rc.misc)} :
    \E sample_id \in {ParseSampleId(Parser(SliceBuf(TrailerWire(rc.config), 0),
                                           rc.config)).val} :
        /\ pc = "visit"
        /\ buf = Parser(SliceBuf(<<>>, 0), rc.config)
        /\ cur = NoCursor
        /\ out = [op |-> "none"]
        /\ hist = [method |-> VisitMethod(kind), overrides |-> overrides,
                   record |-> record,
                   metadata |-> [ty |-> t, misc |-> rc.misc, sample_id |-> sample_id]]

DoVisit ==
    /\ pc = "visit"
    /\ out' = [op |-> "visit",
               call |-> VisitorCall(hist.overrides, hist.method, hist.record,
                                    hist.metadata)]
    /\ pc' = "done"
    /\ UNCHANGED <<buf, cur, hist>>

NextVisit == DoVisit

SpecVisit == InitVisit /\ [][NextVisit]_vars

\* C21: for a visitor that implements visit_unimplemented alone, every
\* visit_* method, visit_switch and visit_unknown included, ends in
\* visit_unimplemented with the metadata it was given; the default of
\* visit_mmap2 calls visit_mmap with the Mmap2 turned into a Mmap (pid, tid,
\* addr, len, pgoff and filename kept, the other fields dropped), so a
\* visitor that overrides visit_mmap alone gets the Mmap2 records too.
C21_VisitorDefaults ==
    (pc = "done" /\ out.op = "visit")
        => /\ out.call.metadata = hist.metadata
           /\ hist.overrides = {}
                => out.call.method = "visit_unimplemented"
           /\ (hist.overrides = {"visit_mmap"} /\ hist.method = "visit_mmap2")
                => /\ out.call.method = "visit_mmap"
                   /\ DOMAIN out.call.record = {"fields", "name"}
                   /\ Len(out.call.record.fields) = 5
                   /\ \A i \in 1..5 : out.call.record.fields[i] = hist.record.fields[i]
                   /\ out.call.record.name = hist.record.name

\* a Mmap2 with a build id handed to a visitor that overrides visit_mmap
\* alone
C21_Witness ==
    /\ pc = "done" /\ out.op = "visit"
    /\ hist.method = "visit_mmap2" /\ hist.overrides = {"visit_mmap"}
    /\ hist.record.detail.build_id
    /\ Len(hist.record.fields) = 7
    /\ out.call.method = "visit_mmap"

-----------------------------------------------------------------------------
(* The visitor calls of parse_record                                       *)

\* the number of integer fields of a decoded record of a kind with a fixed
\* head, -1 for the kinds without one
FieldCount(kind) ==
    CASE kind \in {"READ", "SAMPLE", "SWITCH", "TEXT_POKE", "UNKNOWN"} -> -1
      [] kind = "MMAP2" -> Len(FixedLayout(kind)) + 2
      [] kind = "NAMESPACES" -> Len(FixedLayout(kind)) - 1
      [] OTHER -> Len(FixedLayout(kind))

\* C23: one call of parse_record calls at most one method of the visitor, at
\* most once: exactly one when it returns Ok, with the record decoded to its
\* end, and none when it returns Err; no method gets a record that is
\* decoded in part.
C23_OneVisitorCall ==
    (pc = "done" /\ out.op = "parse_record")
        => /\ Len(out.res.calls) <= 1
           /\ out.res.ok <=> Len(out.res.calls) = 1
           /\ out.res.calls # <<>>
                => /\ out.res.calls[1] = out.res.val
                   /\ out.res.calls[1].record # None
                   /\ out.res.calls[1].method = VisitMethod(hist.kind)
                        \/ out.res.calls[1].method = "visit_unknown"
                   /\ FieldCount(hist.kind) >= 0
                        => Len(out.res.calls[1].record.fields) = FieldCount(hist.kind)

\* a damaged record with the right size whose decoder runs out of bytes
\* inside the body: no method was called
C23_Witness ==
    /\ pc = "done" /\ out.op = "parse_record"
    /\ hist.damaged
    /\ hist.size = Len(Unread(hist.before.data)) - 2
    /\ out.res.err = "Eof"
    /\ out.res.calls = <<>>
    /\ Position(out.res.body) < hist.size - HeaderLen

-----------------------------------------------------------------------------
(* Driver: a source holding several records back to back, read by          *)
(* successive parse_record calls                                           *)

\* the number of records in the source
MaxRecords == 2

\* the parsers of the stream driver: the misc of the parser's own config is
\* not the misc of any record header
StreamConfigs ==
    {Config({}, {}, FALSE, FALSE, 2 ^ SwitchOutBit, {}, {}, Little),
     Config({"TID"}, {"GROUP"}, TRUE, FALSE, 0, {}, {}, Big)}

StreamMiscs == {0, 2 ^ SwitchOutBit, 2 ^ SwitchOutBit + 2 ^ MmapBuildIdBit}

StreamKinds == {"SWITCH_CPU_WIDE", "MMAP2"}

TagOfKind(kind) == CHOOSE t \in 1..Len(RecordKinds) : RecordKinds[t] = kind

\* one record of the stream under a config: a well-formed record of a kind
\* with a misc ("exact"), a record with 8 bytes more than its fields
\* ("padded"), with 8 bytes less ("short"), with 4 bytes after the header
\* and nothing else ("tiny")
StreamRecord(kind, misc, form, config) ==
    LET body == BodyOf(kind, config, misc)
        cut == CASE form = "padded" -> body \o Pattern(8, 7)
                 [] form = "short" -> Take(body, Len(body) - 8)
                 [] form = "tiny" -> Take(body, 4)
                 [] OTHER -> body
        trailer == IF form = "tiny" THEN <<>> ELSE TrailerOf(kind, config)
    IN  [kind |-> kind, misc |-> misc, form |-> form,
         size |-> HeaderLen + Len(cut) + Len(trailer),
         data |-> HeaderWire(config.endian, TagOfKind(kind), misc,
                              HeaderLen + Len(cut) + Len(trailer))
                       \o cut \o trailer]

StreamRecords(config) ==
    {StreamRecord(k, m, "exact", config) : k \in StreamKinds, m \in StreamMiscs}
        \cup {StreamRecord(k, 0, "exact", config) : k \in {"LOST", "SWITCH", "READ"}}
        \cup {StreamRecord("LOST", 0, f, config) : f \in {"padded", "short", "tiny"}}

\* the offset of the header of record i in the stream
OffsetOf(recs, i) == Sum([j \in 1..(i - 1) |-> recs[j].size])

StreamShapes ==
    {[kind |-> "slice", addr |-> 0, n |-> 0, ext |-> TRUE],
     [kind |-> "chunked", addr |-> 0, n |-> 5, ext |-> FALSE]}

InitStream ==
    \E config \in StreamConfigs, shape \in StreamShapes :
    \E recs \in [1..MaxRecords -> StreamRecords(config)] :
    \E bytes \in {Concat(recs)} :
        /\ pc = "stream"
        /\ buf = Parser(SourceOf(bytes, shape), config)
        /\ cur = NoCursor
        /\ out = [op |-> "none"]
        /\ hist = [recs |-> [i \in 1..MaxRecords |->
                               [kind |-> recs[i].kind, misc |-> recs[i].misc,
                                form |-> recs[i].form, size |-> recs[i].size]],
                   total |-> Len(bytes), slice |-> shape.kind = "slice",
                   config |-> config, log |-> <<>>]

\* the next parser.parse_record(visitor) on the stream
DoParseNextRecord ==
    /\ pc = "stream"
    /\ \E res \in {ParseRecord(buf)} :
           /\ out' = [op |-> "parse_record", res |-> res,
                      panicked |-> Panicked(res.p) \/ Panicked(res.body)]
           /\ buf' = res.p
           /\ hist' = [hist EXCEPT !.log = Append(@,
                          [start |-> hist.total - Len(Unread(buf.data)),
                           end |-> hist.total - Len(Unread(res.p.data)),
                           ok |-> res.ok, err |-> res.err,
                           calls |-> res.calls,
                           decoder |-> res.body.config,
                           parser |-> res.p.config])]
    /\ pc' = IF Len(hist.log) + 1 = MaxRecords THEN "done" ELSE "stream"
    /\ UNCHANGED cur

NextStream == DoParseNextRecord

SpecStream == InitStream /\ [][NextStream]_vars

\* C24: on the slice fast path and on the cursor slow path alike, the
\* decoder of each record of the stream runs with a config whose misc is the
\* misc of that record's header and whose other fields are the parser's;
\* SwitchCpuWide decodes as Out exactly when that header has SWITCH_OUT and
\* Mmap2 takes the build-id layout exactly when it has MMAP_BUILD_ID; the
\* parser's own config is the same before and after every call, so that no
\* record is decoded with the misc of the one before it
C24_DecoderSeesHeaderMisc ==
    pc \in {"stream", "done"} =>
        \A i \in 1..Len(hist.log) :
            LET e == hist.log[i]
                rec == hist.recs[i]
            IN  /\ e.start = OffsetOf(hist.recs, i)
                /\ e.decoder.misc = rec.misc
                /\ [e.decoder EXCEPT !.misc = hist.config.misc] = hist.config
                /\ e.parser = hist.config
                /\ rec.kind = "SWITCH_CPU_WIDE" =>
                        /\ e.ok
                        /\ e.calls[1].method = "visit_switch_cpu_wide"
                        /\ e.calls[1].record.out = HasBit(rec.misc, SwitchOutBit)
                /\ rec.kind = "MMAP2" =>
                        /\ e.ok
                        /\ e.calls[1].method = "visit_mmap2"
                        /\ e.calls[1].record.detail.build_id
                                = HasBit(rec.misc, MmapBuildIdBit)

\* a build-id Mmap2 with SWITCH_OUT set is followed on the slow path by a
\* SwitchCpuWide whose header has no misc bit, under a parser whose own misc
\* has SWITCH_OUT: the second record decodes as In
C24_Witness ==
    /\ pc = "done"
    /\ ~hist.slice
    /\ HasBit(hist.config.misc, SwitchOutBit)
    /\ hist.recs[1].kind = "MMAP2"
    /\ HasBit(hist.recs[1].misc, MmapBuildIdBit)
    /\ hist.recs[2].kind = "SWITCH_CPU_WIDE"
    /\ hist.recs[2].misc = 0
    /\ hist.log[1].ok /\ hist.log[1].calls[1].record.detail.build_id
    /\ hist.log[2].ok /\ ~hist.log[2].calls[1].record.out

\* C28: every parse_record call on the stream, whose headers declare the
\* size of their records and whose records are all there, starts at the
\* header of its record and leaves the source exactly the declared size
\* further, whether the decoder returned Ok, failed (Eof in the body,
\* InvalidRecord, UnsupportedConfig) or left bytes of the body unread; a
\* visitor call gets the type and misc of that record's header; after as
\* many calls as there are records the source is at Eof
C28_AdvancesBySize ==
    pc \in {"stream", "done"} =>
        /\ \A i \in 1..Len(hist.log) :
            LET e == hist.log[i]
                rec == hist.recs[i]
            IN  /\ e.start = OffsetOf(hist.recs, i)
                /\ e.end = e.start + rec.size
                /\ e.calls # <<>> =>
                        /\ e.calls[1].metadata.ty = TagOfKind(rec.kind)
                        /\ e.calls[1].metadata.misc = rec.misc
                /\ (rec.form = "exact" /\ rec.kind \in StreamKinds \cup {"LOST"})
                        => e.ok
        /\ pc = "done" =>
                /\ ~Chunk(buf.data).ok
                /\ Unread(buf.data) = <<>>
                /\ hist.log[Len(hist.log)].end = hist.total

\* on the cursor path, a record whose decoder fails with Eof inside the body
\* is followed by a record whose decoder leaves bytes unread and succeeds
C28_Witness ==
    /\ pc = "done"
    /\ ~hist.slice
    /\ hist.recs[1].form = "short"
    /\ ~hist.log[1].ok /\ hist.log[1].err = "Eof"
    /\ hist.recs[2].form = "padded"
    /\ hist.log[2].ok
    /\ hist.log[2].start = hist.recs[1].size
    /\ hist.log[2].end = hist.total

-----------------------------------------------------------------------------
(* Driver: Cow slices split and truncated, and TextPoke records decoded    *)
(* from borrowed and from copied payloads                                  *)

\* the longest Cow slice of the driver
MaxCowLen == 4
\* the largest old_len and new_len of a TextPoke of the driver
MaxPokeLen == 5

\* the sources of a TextPoke: a slice, External chunks (the payload is
\* borrowed when it lies in one chunk), Temporary chunks (always copied)
PokeShapes ==
    {[kind |-> "slice", addr |-> 0, n |-> 0, ext |-> TRUE],
     [kind |-> "chunked", addr |-> 0, n |-> 32, ext |-> TRUE],
     [kind |-> "chunked", addr |-> 0, n |-> 32, ext |-> FALSE],
     [kind |-> "chunked", addr |-> 0, n |-> 5, ext |-> FALSE]}

PokeConfigs ==
    {Config({}, {}, FALSE, FALSE, 0, {}, {}, Little),
     Config({}, {}, FALSE, FALSE, 0, {}, {}, Big)}

\* the payload of a TextPoke with the two lengths: old bytes, new bytes, and
\* padding up to the length round_up_mod gives
PokePayload(old_len, new_len) ==
    Pattern(RoundUpMod(old_len + new_len, 4, 8), 5)

InitCow ==
    \/ \E n \in 0..MaxCowLen, owned \in BOOLEAN :
       \E len \in 0..n :
           /\ pc = "cow"
           /\ buf = Parser(SliceBuf(<<>>, 0), PlainConfig(Little))
           /\ cur = NoCursor
           /\ out = [op |-> "none"]
           /\ hist = [cow |-> IF owned THEN Owned(SrcBytes(n))
                              ELSE Borrowed(SrcBytes(n)),
                      len |-> len]
    \/ \E old_len \in 0..MaxPokeLen, new_len \in 0..MaxPokeLen :
       \E config \in PokeConfigs, shape \in PokeShapes :
       \E payload \in {PokePayload(old_len, new_len)} :
           /\ pc = "poke"
           /\ buf = Parser(SourceOf(Pattern(8, 1)
                                        \o Encode(config.endian, old_len, 2)
                                        \o Encode(config.endian, new_len, 2)
                                        \o payload, shape), config)
           /\ cur = NoCursor
           /\ out = [op |-> "none"]
           /\ hist = [old_len |-> old_len, new_len |-> new_len,
                      payload |-> payload]

\* cow.split_at(len)
DoCowSplitAt ==
    /\ pc = "cow"
    /\ out' = [op |-> "split_at", parts |-> CowSplitAt(hist.cow, hist.len)]
    /\ pc' = "split"
    /\ UNCHANGED <<buf, cur, hist>>

\* cow.truncate(len)
DoCowTruncate ==
    /\ pc = "cow"
    /\ out' = [op |-> "truncate", cow |-> CowTruncate(hist.cow, hist.len)]
    /\ pc' = "truncated"
    /\ UNCHANGED <<buf, cur, hist>>

\* parser.parse::<TextPoke>()
DoParseTextPoke ==
    /\ pc = "poke"
    /\ \E res \in {ParseTextPoke(buf)} :
           /\ out' = [op |-> "parse", ok |-> res.ok, err |-> res.err,
                      val |-> res.val, panicked |-> Panicked(res.p)]
           /\ buf' = res.p
    /\ pc' = "poked"
    /\ UNCHANGED <<cur, hist>>

NextCow ==
    \/ DoCowSplitAt
    \/ DoCowTruncate
    \/ DoParseTextPoke

SpecCow == InitCow /\ [][NextCow]_vars

\* C26: split_at(len) of a Cow slice, borrowed or owned, gives the first
\* len elements and the rest, for every len from 0 to the length; TextPoke
\* decoding gives old_bytes the first old_len bytes of the payload and
\* new_bytes the new_len bytes after them, whether the payload was borrowed
\* or copied
C26_SplitAtLikeSlice ==
    /\ pc = "split" =>
            /\ out.parts[1].data = Take(hist.cow.data, hist.len)
            /\ out.parts[2].data = Drop(hist.cow.data, hist.len)
    /\ pc = "poked" =>
            /\ out.ok
            /\ out.val.old_bytes.data = Take(hist.payload, hist.old_len)
            /\ out.val.new_bytes.data
                    = SubSeq(hist.payload, hist.old_len + 1,
                             hist.old_len + hist.new_len)

-----------------------------------------------------------------------------
(* Namespaces: the accessors of the decoded namespace array                *)

\* the indices of the namespaces in the array, as the kernel defines them
\* (bindings of perf_event_open_sys; index 5 is the mount namespace, which
\* has no accessor)
NET_NS_INDEX == 0
UTS_NS_INDEX == 1
IPC_NS_INDEX == 2
PID_NS_INDEX == 3
USER_NS_INDEX == 4
CGROUP_NS_INDEX == 6

NamespaceAccessors == {"network", "uts", "ipc", "pid", "user", "cgroup"}

\* the index of the namespace an accessor is named after
OwnIndex(accessor) ==
    CASE accessor = "network" -> NET_NS_INDEX
      [] accessor = "uts" -> UTS_NS_INDEX
      [] accessor = "ipc" -> IPC_NS_INDEX
      [] accessor = "pid" -> PID_NS_INDEX
      [] accessor = "user" -> USER_NS_INDEX
      [] accessor = "cgroup" -> CGROUP_NS_INDEX

\* the index each accessor of Namespaces passes to namespaces.get
AccessorIndex(accessor) ==
    CASE accessor = "network" -> NET_NS_INDEX
      [] accessor = "uts" -> USER_NS_INDEX
      [] accessor = "ipc" -> IPC_NS_INDEX
      [] accessor = "pid" -> PID_NS_INDEX
      [] accessor = "user" -> USER_NS_INDEX
      [] accessor = "cgroup" -> CGROUP_NS_INDEX

\* slice::get
SliceGet(s, index) == IF index < Len(s) THEN Some(s[index + 1]) ELSE None

\* Namespaces::network, uts, ipc, pid, user, cgroup
NamespacesGet(self, accessor) ==
    SliceGet(self.namespaces.data, AccessorIndex(accessor))

\* the longest namespace array of the driver
MaxNamespaces == 7

NamespacesShapes ==
    {[kind |-> "slice", addr |-> 0, n |-> 0, ext |-> TRUE],
     [kind |-> "chunked", addr |-> 0, n |-> 7, ext |-> TRUE],
     [kind |-> "chunked", addr |-> 0, n |-> 24, ext |-> FALSE]}

NoNamespaces == [fields |-> <<>>, namespaces |-> Borrowed(<<>>)]

InitNamespaces ==
    \E n \in 0..MaxNamespaces, shape \in NamespacesShapes :
    \E config \in {PlainConfig(Little), PlainConfig(Big)} :
        /\ pc = "namespaces"
        /\ buf = Parser(SourceOf(Pattern(8, 5) \o Encode(config.endian, n, 8)
                                     \o Pattern(16 * n, 6), shape), config)
        /\ cur = NoCursor
        /\ out = [op |-> "none"]
        /\ hist = [nr |-> n, decoded |-> FALSE, record |-> NoNamespaces]

\* parser.parse::<Namespaces>()
DoParseNamespaces ==
    /\ pc = "namespaces"
    /\ ~hist.decoded
    /\ \E res \in {ParseNamespaces(buf)} :
           /\ out' = [op |-> "parse", ok |-> res.ok]
           /\ buf' = res.p
           /\ hist' = [hist EXCEPT !.decoded = res.ok,
                                   !.record = IF res.ok THEN res.val ELSE @]
    /\ UNCHANGED <<pc, cur>>

\* one of namespaces.network(), uts(), ipc(), pid(), user(), cgroup()
DoNamespaceAccessor ==
    /\ pc = "namespaces"
    /\ hist.decoded
    /\ \E accessor \in NamespaceAccessors :
           out' = [op |-> accessor, val |-> NamespacesGet(hist.record, accessor)]
    /\ UNCHANGED <<pc, buf, cur, hist>>

NextNamespaces ==
    \/ DoParseNamespaces
    \/ DoNamespaceAccessor

SpecNamespaces == InitNamespaces /\ [][NextNamespaces]_vars

\* C27: each accessor of Namespaces returns the entry of the decoded array
\* at the index of the namespace it is named after, or None if the array is
\* shorter, and no two accessors read the same index
C27_AccessorsOwnIndex ==
    (pc = "namespaces" /\ hist.decoded) =>
        /\ Len(hist.record.namespaces.data) = hist.nr
        /\ out.op \in NamespaceAccessors =>
                out.val = IF OwnIndex(out.op) < hist.nr
                          THEN Some(hist.record.namespaces.data[OwnIndex(out.op) + 1])
                          ELSE None
        /\ \A a, b \in NamespaceAccessors :
                a # b => AccessorIndex(a) # AccessorIndex(b)

-----------------------------------------------------------------------------
(* Driver: SampleId decoded on its own and as the trailer of a record,     *)
(* under every choice of the flags that select its fields                  *)

\* how many bytes more than the estimate a source of the driver holds
MaxTrailerExtra == 1

\* the sample types of the driver: every set of the six flags of SampleId,
\* alone or with a flag that selects none of its fields
TrailerSampleTypes ==
    {sty \cup other : sty \in SUBSET SampleIdFlags, other \in {{}, {"IP"}}}

TrailerConfigs ==
    {Config(sty, {}, idAll, FALSE, 0, {}, {}, e) :
        sty \in TrailerSampleTypes, idAll \in BOOLEAN, e \in {Little, Big}}

TrailerShapes ==
    {[kind |-> "slice", addr |-> 0, n |-> 0, ext |-> TRUE],
     [kind |-> "chunked", addr |-> 0, n |-> 3, ext |-> FALSE]}

\* the lengths of the sources SampleId is decoded from: the estimate, up to
\* MaxTrailerExtra more, and one byte less
TrailerLens(config) ==
    {EstimateLen(config) + d : d \in 0..MaxTrailerExtra}
        \cup {EstimateLen(config) - d : d \in {1} \cap 1..EstimateLen(config)}

\* a LOST record whose trailer is the bytes the header size leaves after the
\* 16 bytes of its fields
TrailerRecord(config) ==
    HeaderWire(config.endian, TagOfKind("LOST"), 0,
               HeaderLen + 16 + EstimateLen(config))
        \o Pattern(16, 1) \o Pattern(EstimateLen(config), 2)

InitTrailer ==
    \E config \in TrailerConfigs, shape \in TrailerShapes :
        \/ \E len \in TrailerLens(config) :
            /\ pc = "trailer"
            /\ buf = Parser(SourceOf(Pattern(len, 2), shape), config)
            /\ cur = NoCursor
            /\ out = [op |-> "none"]
            /\ hist = [len |-> len, before |-> Parser(SourceOf(Pattern(len, 2), shape), config)]
        \/  /\ pc = "framed"
            /\ buf = Parser(SourceOf(TrailerRecord(config), shape), config)
            /\ cur = NoCursor
            /\ out = [op |-> "none"]
            /\ hist = [len |-> EstimateLen(config),
                       before |-> Parser(SourceOf(TrailerRecord(config), shape), config)]

\* parser.parse::<SampleId>()
DoParseTrailer ==
    /\ pc = "trailer"
    /\ \E res \in {ParseSampleId(buf)} :
           /\ out' = [op |-> "parse", ok |-> res.ok, err |-> res.err,
                      val |-> IF res.ok THEN res.val ELSE EmptySampleId,
                      panicked |-> Panicked(res.p)]
           /\ buf' = res.p
    /\ pc' = "done"
    /\ UNCHANGED <<cur, hist>>

\* parser.parse_metadata() on the record
DoParseTrailerMetadata ==
    /\ pc = "framed"
    /\ \E res \in {ParseMetadata(buf)} :
           /\ out' = [op |-> "parse_metadata", ok |-> res.ok, err |-> res.err,
                      val |-> IF res.ok THEN res.val.metadata.sample_id
                              ELSE EmptySampleId,
                      panicked |-> Panicked(res.p)]
           /\ buf' = res.p
    /\ pc' = "done"
    /\ UNCHANGED <<cur, hist>>

NextTrailer ==
    \/ DoParseTrailer
    \/ DoParseTrailerMetadata

SpecTrailer == InitTrailer /\ [][NextTrailer]_vars

\* the bytes the six flags select: 8 for each flag that is set, when
\* sample_id_all is set
SelectedLen(config) ==
    IF config.sample_id_all
    THEN 8 * Cardinality({f \in SampleIdFlags : f \in config.sample_type})
    ELSE 0

\* C29: under every config, SampleId::parse succeeds exactly when the source
\* holds estimate_len(config) bytes or more, and then it has consumed
\* estimate_len(config) bytes: none when sample_id_all is unset, 8 for each
\* of TID, TIME, ID, STREAM_ID, CPU, IDENTIFIER that is set; the trailer that
\* parse_metadata carves with estimate_len bytes decodes without Eof, to a
\* SampleId with the fields of the flags
C29_SampleIdLenIsEstimate ==
    (pc = "done" /\ out.op \in {"parse", "parse_metadata"}) =>
        LET config == hist.before.config
        IN  /\ EstimateLen(config) = SelectedLen(config)
            /\ ~out.panicked
            /\ out.op = "parse" =>
                    /\ out.ok <=> hist.len >= SelectedLen(config)
                    /\ ~out.ok => out.err = "Eof"
                    /\ out.ok => Position(hist.before) - Position(buf)
                                    = SelectedLen(config)
                    /\ (out.ok /\ hist.len = SelectedLen(config))
                            => Unread(buf.data) = <<>>
            /\ out.op = "parse_metadata" =>
                    /\ out.ok
                    /\ Unread(buf.data) = <<>>
            /\ out.ok =>
                    /\ out.val.pid # None <=> (config.sample_id_all /\ "TID" \in config.sample_type)
                    /\ out.val.cpu # None <=> (config.sample_id_all /\ "CPU" \in config.sample_type)
                    /\ out.val.time # None <=> (config.sample_id_all /\ "TIME" \in config.sample_type)

\* all six flags set: 48 bytes, the whole source, are consumed from chunks
C29_Witness ==
    /\ pc = "done"
    /\ out.op = "parse"
    /\ out.ok
    /\ hist.before.config.sample_id_all
    /\ SampleIdFlags \subseteq hist.before.config.sample_type
    /\ hist.before.data.kind = "chunked"
    /\ hist.len = 48
    /\ Unread(buf.data) = <<>>

-----------------------------------------------------------------------------
(* perf_event_attr: the bytes a descriptor takes                           *)

\* the size of a descriptor is one the decoder takes: a known layout, or
\* one beyond the largest
AttrSizeTaken(size) ==
    size \in {AttrSizes[v] : v \in DOMAIN AttrSizes} \/ size > PERF_ATTR_SIZE_MAX

\* C30: a perf_event_attr whose size S is a known layout size, or larger
\* than the largest with zero padding, decodes from a source of exactly S
\* bytes and takes S bytes of any source, the 8 bytes of type and size
\* among them; any other size fails with InvalidRecord
C30_AttrTakesSizeBytes ==
    (pc = "done" /\ out.op = "parse_perf_event_attr") =>
        IF AttrSizeTaken(hist.size)
        THEN /\ (hist.follow = <<>> /\ \A i \in 1..Len(hist.tail) : hist.tail[i] = 0)
                    => out.ok
             /\ out.ok => Unread(buf.data) = hist.follow
        ELSE ~out.ok /\ out.err = "InvalidRecord"

====
